---- MODULE Spec2Model ----
(***************************************************************************)
(* The gamification ledger of Habit-B: the request handlers that change a  *)
(* user's xp, level, coins, gems, badges and spin cooldown, and the store  *)
(* transactions they run in.                                               *)
(*                                                                         *)
(* The store is MongoDB reached through Mongoose.  What the model takes    *)
(* from that platform:                                                     *)
(*  - a transaction (session.startTransaction .. commitTransaction) reads  *)
(*    from the snapshot taken at its first operation and buffers its       *)
(*    writes; a write to a document that another open transaction has      *)
(*    written, or that was changed after the snapshot, throws a write      *)
(*    conflict; a write outside a transaction waits for the transaction    *)
(*    holding the document;                                                *)
(*  - a document loaded by a query bound to a session saves through that   *)
(*    session;                                                             *)
(*  - save() of a document loaded outside a transaction updates, on the    *)
(*    document as it is stored by then, the paths whose value differs from *)
(*    the value that was loaded;                                           *)
(*  - select(...) loads only the named paths: a number path that was not   *)
(*    loaded reads as undefined, arithmetic on it gives NaN, and save()    *)
(*    rejects NaN for a Number path;                                       *)
(*  - the store keeps every field a handler writes.                        *)
(*  - commitTransaction leaves the session's transaction in the committed  *)
(*    state whether or not it throws, and abortTransaction on a            *)
(*    transaction in that state is rejected with an error;                 *)
(*  - an aggregation fails as a whole when a stage raises an error, and    *)
(*    its $match conditions are compared with the stored documents as they *)
(*    are: a condition on a path that a document lacks is not met.         *)
(* Time is counted in hours since the epoch; a date that was never set     *)
(* reads as the epoch (hour 0), as "lastSpin || new Date(0)" does.         *)
(***************************************************************************)
EXTENDS Integers, Sequences, FiniteSets, TLC

VARIABLES
  now,      \* the clock, in hours since the epoch
  user,     \* the stored User document (the committed state)
  habit,    \* the stored Habit document
  task,     \* the stored Task document
  shop,     \* the stored ShopItem document
  req,      \* req[p]: the request process p is serving, with its transaction,
            \* the commit and abort calls it made and its responses so far
  spinLog,  \* history: the lastSpin written by each committed spin, in commit order
  awarded,  \* history: the xp awarded by, and the number of, committed completions
  started,  \* history: how many requests have been started so far
  faults,   \* history: how many store calls have failed so far
  deleted   \* the ids of the Badge documents that were deleted from the store

vars == <<now, user, habit, task, shop, req, spinLog, awarded, started, faults,
          deleted>>

-----------------------------------------------------------------------------
(* Bounds of the model *)

StartHour == 48
TickHours == 12
MaxNow == 72
MaxFaults == 1
MaxRequests == 3

Procs == {1, 2}

\* base xp of the task: the schema default and a large client-supplied value
DefaultTaskXP == 5
TaskXPs == {DefaultTaskXP, 100}

-----------------------------------------------------------------------------
(* Small helpers *)

Max(a, b) == IF a >= b THEN a ELSE b
Min(a, b) == IF a <= b THEN a ELSE b

Includes(s, x) == \E i \in 1..Len(s) : s[i] = x

Count(s, x) == Cardinality({i \in 1..Len(s) : s[i] = x})

\* $addToSet: append unless present; the empty id stands for "no badge component"
AddToSet(s, x) == IF x = "" \/ Includes(s, x) THEN s ELSE Append(s, x)

\* floor(sqrt(n)) for a natural n
ISqrt(n) == CHOOSE k \in 0..n : k * k <= n /\ (k + 1) * (k + 1) > n

-----------------------------------------------------------------------------
(* Documents *)

NewUser(c, g) ==
  [xp |-> 0, level |-> 1, coins |-> c, gems |-> g, totalXP |-> 0,
   completedHabits |-> 0, completedTasks |-> 0, playCount |-> 0,
   badges |-> <<>>, items |-> 0, shopPurchases |-> 0,
   lastSpin |-> 0, spinCount |-> 0,
   currentStreak |-> 0, longestStreak |-> 0, daysActive |-> 0,
   streakProtection |-> 0]

\* HabitSchema defaults; history is the set of days with a completion entry
NewHabit ==
  [baseXP |-> 10, currentStreak |-> 0, longestStreak |-> 0, streakBonus |-> 0,
   history |-> {}, completions |-> 0, lastCompleted |-> 0, completed |-> FALSE]

\* TaskSchema defaults, for a task created with base xp b and no due date
NewTask(b) ==
  [baseXP |-> b, priorityMultiplier |-> 1, streakBonus |-> 0, dueDate |-> 0,
   completed |-> FALSE]

\* a limited-edition shop item linked to a badge
NewShop ==
  [type |-> "badge", linkedBadge |-> "gold", coins |-> 10, gems |-> 0,
   isActive |-> TRUE, availableUntil |-> 0, limitedEdition |-> TRUE, stock |-> 2]

NoUpdates ==
  [xp |-> 0, coins |-> 0, item |-> FALSE, badge |-> "", lastSpin |-> 0, level |-> 0]

IdleReq ==
  [op |-> "idle", pc |-> "idle", arg |-> "", snap |-> NewUser(0, 0),
   wu |-> NewUser(0, 0), wset |-> {}, stale |-> {}, overlap |-> FALSE,
   wh |-> NewHabit, wt |-> NewTask(DefaultTaskXP), ws |-> NewShop, wrote |-> {}, xpEarned |-> 0,
   out |-> "", t |-> 0, upd |-> NoUpdates, commits |-> 0, aborts |-> 0,
   levelUp |-> 0, result |-> [xpGained |-> 0, levelUp |-> FALSE], value |-> 0,
   tier |-> "", rewards |-> <<>>, coll |-> <<>>, board |-> <<>>,
   gone |-> {}, called |-> <<>>, resp |-> 0]

Active(q) == req[q].op # "idle" /\ req[q].pc # "done"

\* session.startTransaction() and the first read: the snapshot of the transaction
Begin(p, kind, a) ==
  [IdleReq EXCEPT !.op = kind, !.arg = a, !.snap = user, !.wu = user,
                  !.gone = deleted]

\* a write inside p's transaction to document d conflicts
Conflict(p, d) ==
  \/ d \in req[p].stale
  \/ \E q \in Procs \ {p} : Active(q) /\ d \in req[q].wset

\* what a commit (or a write outside a transaction) of documents ds by p does to
\* the other open requests
Others(p, ds, r) ==
  [q \in Procs |->
     IF q = p THEN r
     ELSE IF Active(q)
       THEN [req[q] EXCEPT !.stale = @ \cup ds,
                           !.overlap = @ \/ ("user" \in ds)]
       ELSE req[q]]

OnlyReq(p, r) == req' = [req EXCEPT ![p] = r]

\* a request arrives at process p and runs up to its first await
Start(p, r) ==
  /\ req[p].op = "idle"
  /\ started < MaxRequests
  /\ started' = started + 1
  /\ OnlyReq(p, r)

\* an exception thrown inside the handler's try block: control goes to catch
Raise(r, err) == [r EXCEPT !.pc = "catch", !.out = err]

Throw(p, err) == Raise(req[p], err)

\* "await session.abortTransaction(); return next(new AppError(...))"
Reject(r, err) ==
  [r EXCEPT !.pc = "done", !.out = err, !.aborts = @ + 1,
            !.called = Append(@, "abort"), !.resp = @ + 1]

\* the end of a call that runs in no transaction
Return(r, res) == [r EXCEPT !.pc = "done", !.out = res]

\* a write outside a transaction waits for the transaction that holds the document
Held(p, d) == \E q \in Procs \ {p} : Active(q) /\ d \in req[q].wset

\* a write inside p's transaction: the conflict, or the documents to buffer
Write(p, d, r) ==
  IF Conflict(p, d) THEN Raise(r, "WriteConflict")
  ELSE [r EXCEPT !.wset = @ \cup {d}, !.wrote = @ \cup {d}]

-----------------------------------------------------------------------------
(* The clock *)

Tick ==
  /\ now + TickHours <= MaxNow
  /\ now' = now + TickHours
  /\ UNCHANGED <<user, habit, task, shop, req, spinLog, awarded, started, faults, deleted>>

-----------------------------------------------------------------------------
(* Ending a request: commitTransaction, the catch block, the finally block *)

\* session.commitTransaction(): the buffered writes become the stored state;
\* the response follows
Commit(p) ==
  /\ req[p].pc = "commit"
  /\ user' = IF "user" \in req[p].wset THEN req[p].wu ELSE user
  /\ habit' = IF "habit" \in req[p].wset THEN req[p].wh ELSE habit
  /\ task' = IF "task" \in req[p].wset THEN req[p].wt ELSE task
  /\ spinLog' = IF req[p].op = "spin" THEN Append(spinLog, req[p].t) ELSE spinLog
  /\ req' = Others(p, req[p].wset,
                   [req[p] EXCEPT !.pc = "done", !.out = "ok", !.wset = {},
                                  !.commits = @ + 1,
                                  !.called = Append(@, "commit"),
                                  !.resp = @ + 1])
  /\ awarded' = IF req[p].op \in {"habit", "task"}
                  THEN [xp |-> awarded.xp + req[p].xpEarned, n |-> awarded.n + 1]
                  ELSE awarded
  /\ UNCHANGED <<now, shop, started, faults, deleted>>

\* catch (error) { await session.abortTransaction(); next(error); }: when the
\* error came from commitTransaction, the store has discarded the transaction,
\* abortTransaction is rejected and the rejection leaves the catch block
\* before next(error)
Catch(p) ==
  /\ req[p].pc = "catch"
  /\ OnlyReq(p, [req[p] EXCEPT !.pc = "done", !.wset = {}, !.aborts = @ + 1,
                               !.called = Append(@, "abort"),
                               !.resp = IF Includes(req[p].called, "commit")
                                          THEN @ ELSE @ + 1])
  /\ UNCHANGED <<now, user, habit, task, shop, spinLog, awarded, started, faults, deleted>>

\* finally { session.endSession(); }: the request is over
Finish(p) ==
  /\ req[p].pc = "done"
  /\ OnlyReq(p, IdleReq)
  /\ UNCHANGED <<now, user, habit, task, shop, spinLog, awarded, started, faults, deleted>>

-----------------------------------------------------------------------------
(* The spin wheel: spinWheelController.js *)

Xp(lo, hi) == [type |-> "xp", min |-> lo, max |-> hi, id |-> ""]
Coins(lo, hi) == [type |-> "coins", min |-> lo, max |-> hi, id |-> ""]
Item(i) == [type |-> "item", min |-> 0, max |-> 0, id |-> i]
BadgeReward(b) == [type |-> "badge", min |-> 0, max |-> 0, id |-> b]

REWARD_TIERS ==
  << [name |-> "Common", weight |-> 60,
      rewards |-> <<Xp(10, 30), Coins(5, 15)>>],
     [name |-> "Uncommon", weight |-> 25,
      rewards |-> <<Xp(30, 60), Coins(15, 30), Item("common_boost")>>],
     [name |-> "Rare", weight |-> 10,
      rewards |-> <<Xp(60, 100), Coins(30, 50), Item("rare_boost")>>],
     [name |-> "Epic", weight |-> 4,
      rewards |-> <<Xp(100, 200), Coins(50, 100), Item("epic_boost")>>],
     [name |-> "Legendary", weight |-> 1,
      rewards |-> <<Xp(200, 500), Coins(100, 200), Item("legendary_boost"),
                    BadgeReward("wheel_legend")>>] >>

\* Math.random() is a draw k/1000 with k in 0..999; the draws the model takes
RandomDraws == {0, 999}

RECURSIVE SumWeights(_)
SumWeights(i) ==
  IF i > Len(REWARD_TIERS) THEN 0 ELSE REWARD_TIERS[i].weight + SumWeights(i + 1)

\* variant: the loop compares with <= instead of <
RECURSIVE WalkTiers_Inclusive(_, _)
WalkTiers_Inclusive(i, random) ==
  IF i > Len(REWARD_TIERS) THEN REWARD_TIERS[1]
  ELSE IF random <= REWARD_TIERS[i].weight * 1000 THEN REWARD_TIERS[i]
  ELSE WalkTiers_Inclusive(i + 1, random - REWARD_TIERS[i].weight * 1000)

\* the loop of selectRewardTier; random is carried in thousandths
RECURSIVE WalkTiers(_, _)
WalkTiers(i, random) ==
  IF i > Len(REWARD_TIERS) THEN REWARD_TIERS[1]
  ELSE IF random < REWARD_TIERS[i].weight * 1000 THEN REWARD_TIERS[i]
  ELSE WalkTiers(i + 1, random - REWARD_TIERS[i].weight * 1000)

selectRewardTier(k) == WalkTiers(1, k * SumWeights(1))

\* the return statement that the loop of selectRewardTier reaches with random:
\* the index of the tier returned inside the loop, 0 for the fallback
RECURSIVE WalkReturn(_, _)
WalkReturn(i, random) ==
  IF i > Len(REWARD_TIERS) THEN 0
  ELSE IF random < REWARD_TIERS[i].weight * 1000 THEN i
  ELSE WalkReturn(i + 1, random - REWARD_TIERS[i].weight * 1000)

\* every value of Math.random(), in thousandths
TierDraws == 0 .. 999

\* one call of selectRewardTier with the draw k; the request keeps the draw
\* and the name of the tier returned
DrawTier ==
  /\ req[1].op = "idle"
  /\ \E k \in TierDraws :
       req' = [req EXCEPT ![1] = [Return(IdleReq, selectRewardTier(k).name)
                                   EXCEPT !.op = "tier", !.value = k]]
  /\ UNCHANGED <<now, user, habit, task, shop, spinLog, awarded, started, faults, deleted>>

IsPrimary(r) == r.type = "xp" \/ r.type = "coins"

\* the forEach of selectRandomReward: ks[i] is the draw taken for reward i
RECURSIVE Additional(_, _, _)
Additional(rewards, ks, i) ==
  IF i > Len(rewards) THEN <<>>
  ELSE (IF ~IsPrimary(rewards[i]) /\ ks[i] < 300 THEN <<rewards[i]>> ELSE <<>>)
         \o Additional(rewards, ks, i + 1)

selectRandomReward(tier, k, ks) ==
  LET primaryRewards == SelectSeq(tier.rewards, IsPrimary)
      first == IF Len(primaryRewards) > 0
                 THEN <<primaryRewards[((k * Len(primaryRewards)) \div 1000) + 1]>>
                 ELSE <<>>
  IN first \o Additional(tier.rewards, ks, 1)

\* variant: a range one wider than max - min + 1
getRandomInRange_Wide(lo, hi, k) == ((k * (hi - lo + 2)) \div 1000) + lo

getRandomInRange(lo, hi, k) == ((k * (hi - lo + 1)) \div 1000) + lo

\* rewardDetails.rewards as the loop over the reward components builds it; k is
\* the draw of getRandomInRange
RECURSIVE Materialize(_, _, _)
Materialize(reward, i, k) ==
  IF i > Len(reward) THEN <<>>
  ELSE LET c == reward[i] IN
    << [type |-> c.type, id |-> c.id,
        amount |-> IF IsPrimary(c) THEN getRandomInRange(c.min, c.max, k) ELSE 0] >>
      \o Materialize(reward, i + 1, k)

\* the loop over the reward components, building the update document
RECURSIVE Process(_, _, _, _)
Process(reward, i, k, upd) ==
  IF i > Len(reward) THEN upd
  ELSE LET c == reward[i] IN
    Process(reward, i + 1, k,
      IF c.type = "xp" THEN [upd EXCEPT !.xp = getRandomInRange(c.min, c.max, k)]
      ELSE IF c.type = "coins"
        THEN [upd EXCEPT !.coins = getRandomInRange(c.min, c.max, k)]
      ELSE IF c.type = "item" THEN [upd EXCEPT !.item = TRUE]
      ELSE [upd EXCEPT !.badge = c.id])

HasItem(reward) == \E i \in 1..Len(reward) : reward[i].type = "item"

\* the draws of Math.random() taken for the choice of the primary reward, for
\* each additional reward and for an amount, in thousandths
ChoiceDraws == {0, 499, 500, 999}
ChanceDraws == {0, 299, 300, 999}
AmountDraws == {0, 250, 500, 750, 999}

\* selectRandomReward(tier) and the loop over its components, for one tier and
\* one outcome of the draws; the request keeps rewardDetails
DrawReward ==
  /\ req[1].op = "idle"
  /\ \E t \in 1..Len(REWARD_TIERS), k \in ChoiceDraws, ka \in AmountDraws :
       \E ks \in [1..Len(REWARD_TIERS[t].rewards) -> ChanceDraws] :
         LET tier == REWARD_TIERS[t]
             reward == selectRandomReward(tier, k, ks)
         IN req' = [req EXCEPT ![1] = [Return(IdleReq, "ok") EXCEPT
                                         !.op = "reward", !.tier = tier.name,
                                         !.rewards = Materialize(reward, 1, ka)]]
  /\ UNCHANGED <<now, user, habit, task, shop, spinLog, awarded, started, faults, deleted>>

\* "Check for level up": the level the handler adds to $set, 0 when it adds none
SpinLevel(u, upd) ==
  LET newLevel == ((u.xp + upd.xp) \div 100) + 1
  IN IF newLevel > u.level THEN newLevel ELSE 0

\* variant: a cooldown of twelve hours
CooldownActive_12(u, t) == t - u.lastSpin < 12

\* the cooldown test "hoursSinceLastSpin < 24"
CooldownActive(u, t) == t - u.lastSpin < 24

\* variant: the update document without the $set of gameStats.lastSpin
ApplyUpdates_KeepLastSpin(u, upd) ==
  [u EXCEPT !.xp = @ + upd.xp, !.totalXP = @ + upd.xp, !.coins = @ + upd.coins,
            !.items = @ + (IF upd.item THEN 1 ELSE 0),
            !.badges = AddToSet(@, upd.badge),
            !.level = IF upd.level # 0 THEN upd.level ELSE @]

\* the update document applied by findByIdAndUpdate
ApplyUpdates(u, upd) ==
  [u EXCEPT !.xp = @ + upd.xp, !.totalXP = @ + upd.xp, !.coins = @ + upd.coins,
            !.items = @ + (IF upd.item THEN 1 ELSE 0),
            !.badges = AddToSet(@, upd.badge),
            !.lastSpin = upd.lastSpin,
            !.level = IF upd.level # 0 THEN upd.level ELSE @]

\* startTransaction and User.findById(...).session(session)
SpinLoad(p) ==
  /\ Start(p, [Begin(p, "spin", "") EXCEPT !.pc = "check"])
  /\ UNCHANGED <<now, user, habit, task, shop, spinLog, awarded, faults, deleted>>

\* the cooldown check, the choice of the reward and the update document;
\* k1 is the draw for the tier, k2 the draw taken by every later Math.random();
\* found: whether InventoryItem.findById finds the reward item
SpinCheck(p) ==
  /\ req[p].op = "spin" /\ req[p].pc = "check"
  /\ \/ /\ CooldownActive(req[p].snap, now)
        /\ OnlyReq(p, [Throw(p, "CooldownActive") EXCEPT !.t = now])
     \/ /\ ~CooldownActive(req[p].snap, now)
        /\ \E k1, k2 \in RandomDraws, found \in BOOLEAN :
             LET tier == selectRewardTier(k1)
                 reward == selectRandomReward(tier, k2, [i \in 1..Len(tier.rewards) |-> k2])
                 upd0 == Process(reward, 1, k2, [NoUpdates EXCEPT !.lastSpin = now])
                 upd == [upd0 EXCEPT !.level = SpinLevel(req[p].snap, upd0)]
             IN IF HasItem(reward) /\ ~found
                  THEN OnlyReq(p, [Throw(p, "ItemNotFound") EXCEPT !.t = now])
                  ELSE OnlyReq(p, [req[p] EXCEPT !.pc = "update", !.t = now,
                                                 !.upd = upd,
                                                 !.levelUp = upd.level,
                                                 !.tier = tier.name,
                                                 !.rewards = Materialize(reward, 1, k2)])
  /\ UNCHANGED <<now, user, habit, task, shop, spinLog, awarded, started, faults, deleted>>

\* variant: the update issued without the session, outside the transaction
SpinUpdate_NoSession(p) ==
  /\ req[p].op = "spin" /\ req[p].pc = "update"
  /\ ~\E q \in Procs \ {p} : Active(q) /\ "user" \in req[q].wset
  /\ user' = [user EXCEPT !.xp = @ + req[p].upd.xp, !.totalXP = @ + req[p].upd.xp,
                           !.coins = @ + req[p].upd.coins,
                           !.items = @ + (IF req[p].upd.item THEN 1 ELSE 0),
                           !.badges = AddToSet(@, req[p].upd.badge),
                           !.lastSpin = req[p].upd.lastSpin,
                           !.level = IF req[p].upd.level # 0 THEN req[p].upd.level ELSE @]
  /\ req' = Others(p, {"user"}, [req[p] EXCEPT !.pc = "log", !.stale = @ \cup {"user"}])
  /\ UNCHANGED <<now, habit, task, shop, spinLog, awarded, started, faults, deleted>>

\* User.findByIdAndUpdate(req.user.id, updates, { session })
SpinUpdate(p) ==
  /\ req[p].op = "spin" /\ req[p].pc = "update"
  /\ OnlyReq(p, Write(p, "user", [req[p] EXCEPT !.pc = "log",
                                                 !.wu = ApplyUpdates(@, req[p].upd)]))
  /\ UNCHANGED <<now, user, habit, task, shop, spinLog, awarded, started, faults, deleted>>

\* logSpinActivity: $inc gameStats.spinCount, in the session
SpinLog(p) ==
  /\ req[p].op = "spin" /\ req[p].pc = "log"
  /\ OnlyReq(p, Write(p, "user", [req[p] EXCEPT !.pc = "commit",
                                                 !.wu.spinCount = @ + 1]))
  /\ UNCHANGED <<now, user, habit, task, shop, spinLog, awarded, started, faults, deleted>>

-----------------------------------------------------------------------------
(* Badges: models/Badge.js and badgeController.js *)

BadgeDoc(i, metric, game, xr, cr, buy, pr, act, from, until) ==
  [id |-> i, metric |-> metric, threshold |-> 1, gameSpecific |-> game,
   xpReward |-> xr, coinReward |-> cr, purchasable |-> buy, price |-> pr,
   isActive |-> act, availableFrom |-> from, availableUntil |-> until]

\* the Badge collection, in the order find() returns it; a date of 0 is unset
Badges ==
  << BadgeDoc("streaker", "completedHabits", "", 50, 10, FALSE, 0, TRUE, 1, 0),
     BadgeDoc("gamer", "gamesPlayed", "spin-wheel", 20, 25, FALSE, 0, TRUE, 1, 0),
     BadgeDoc("gold", "shopPurchases", "", 0, 0, TRUE, 10, TRUE, 1, 0),
     BadgeDoc("early", "shopPurchases", "", 0, 0, TRUE, 10, TRUE, 1000, 0),
     BadgeDoc("expired", "shopPurchases", "", 0, 0, TRUE, 10, TRUE, 1, 24),
     BadgeDoc("retired", "shopPurchases", "", 0, 0, TRUE, 10, FALSE, 1, 0) >>

BadgeIds == {Badges[i].id : i \in 1..Len(Badges)}

\* Badge.findById
FindBadge(b) == CHOOSE i \in 1..Len(Badges) : Badges[i].id = b

\* the virtual isAvailable of the Badge schema
BadgeIsAvailable(badge, t) ==
  badge.isActive /\ (badge.availableUntil = 0 \/ t <= badge.availableUntil)

\* the paths loaded by select(...); the empty set stands for the whole document
Selected(op) ==
  CASE op = "check" -> {"gameStats"}
    [] op = "buyBadge" -> {"coins", "gameStats.badges"}
    [] OTHER -> {}

\* the number paths outside gameStats that a handler of kind op reads as undefined
Unloaded(op) ==
  IF Selected(op) = {} THEN {} ELSE {"xp", "level", "coins", "gems"} \ Selected(op)

\* the pre('save') hook of the User schema; on a path that was not loaded the
\* comparison is with NaN and the level stays
LevelHook(u, op) ==
  LET potentialLevel == ISqrt(u.xp \div 100) + 1
  IN IF {"xp", "level"} \cap Unloaded(op) = {} /\ u.xp >= 0 /\ potentialLevel > u.level
       THEN [u EXCEPT !.level = Min(potentialLevel, 100)]
       ELSE u

\* user.save({ session }): nan holds the number paths that were assigned NaN; the
\* validators reject NaN and a balance below the minimum of 0
Save(p, r, nan) ==
  IF nan # {} \/ r.wu.coins < 0 \/ r.wu.gems < 0 THEN Raise(r, "ValidationError")
  ELSE Write(p, "user", [r EXCEPT !.wu = LevelHook(@, r.op)])

\* variant: the default case of the switch gives a progress of 1
Progress_DefaultOne(u, badge) ==
  CASE badge.metric = "streak" -> u.currentStreak
    [] badge.metric = "totalXP" -> u.totalXP
    [] badge.metric = "daysActive" -> u.daysActive
    [] badge.metric = "completedTasks" -> u.completedTasks
    [] badge.metric = "completedHabits" -> u.completedHabits
    [] badge.metric = "gamesPlayed" ->
         (IF badge.gameSpecific = "spin-wheel" THEN u.playCount ELSE 0)
    [] OTHER -> 1

\* the switch on badge.criteria.metric in checkAndAwardBadges
Progress(u, badge) ==
  CASE badge.metric = "streak" -> u.currentStreak
    [] badge.metric = "totalXP" -> u.totalXP
    [] badge.metric = "daysActive" -> u.daysActive
    [] badge.metric = "completedTasks" -> u.completedTasks
    [] badge.metric = "completedHabits" -> u.completedHabits
    [] badge.metric = "gamesPlayed" ->
         (IF badge.gameSpecific = "spin-wheel" THEN u.playCount ELSE 0)
    [] OTHER -> 0

\* the loop over potentialBadges: acc = <<badges, totalXPReward, totalCoinReward>>
\* variant: the rewards of an awarded badge join the user's totals at once
RECURSIVE AwardLoopOver_Running(_, _, _, _)
AwardLoopOver_Running(badges, u, i, acc) ==
  IF i > Len(badges) THEN acc
  ELSE LET badge == badges[i]
           potential == ~Includes(u.badges, badge.id) /\ badge.isActive
           running == [u EXCEPT !.totalXP = @ + acc[2], !.xp = @ + acc[2],
                                !.coins = @ + acc[3]]
       IN AwardLoopOver_Running(badges, u, i + 1,
            IF potential /\ Progress(running, badge) >= badge.threshold
              THEN <<Append(acc[1], badge.id), acc[2] + badge.xpReward,
                     acc[3] + badge.coinReward>>
              ELSE acc)

\* the loop over the badges of a catalogue: acc holds the user's badges and
\* totalXPReward and totalCoinReward so far
RECURSIVE AwardLoopOver(_, _, _, _)
AwardLoopOver(badges, u, i, acc) ==
  IF i > Len(badges) THEN acc
  ELSE LET badge == badges[i]
           potential == ~Includes(u.badges, badge.id) /\ badge.isActive
       IN AwardLoopOver(badges, u, i + 1,
            IF potential /\ Progress(u, badge) >= badge.threshold
              THEN <<Append(acc[1], badge.id), acc[2] + badge.xpReward,
                     acc[3] + badge.coinReward>>
              ELSE acc)

AwardLoop(u, i, acc) == AwardLoopOver(Badges, u, i, acc)

\* the Badge documents a transaction finds: those not deleted by its snapshot
Present(gone) == SelectSeq(Badges, LAMBDA badge : badge.id \notin gone)

\* startTransaction; User.findById(userId).select('gameStats').session(session)
CheckLoad(p) ==
  /\ Start(p, [Begin(p, "check", "") EXCEPT !.pc = "award"])
  /\ UNCHANGED <<now, user, habit, task, shop, spinLog, awarded, faults, deleted>>

\* the qualification loop, the reward sums and user.save({ session })
CheckAward(p) ==
  /\ req[p].op = "check" /\ req[p].pc = "award"
  /\ LET u == req[p].snap
         acc == AwardLoopOver(Present(req[p].gone), u, 1, <<u.badges, 0, 0>>)
         nan == {"xp", "coins"} \cap Unloaded("check")
     IN IF Len(acc[1]) > Len(u.badges)
          THEN OnlyReq(p, Save(p, [req[p] EXCEPT !.pc = "commit",
                                      !.wu.badges = acc[1],
                                      !.wu.totalXP = @ + acc[2],
                                      !.wu.xp = @ + acc[2],
                                      !.wu.coins = @ + acc[3]], nan))
          ELSE OnlyReq(p, Reject(req[p], "NoNewBadges"))
  /\ UNCHANGED <<now, user, habit, task, shop, spinLog, awarded, started, faults, deleted>>

\* purchaseBadge up to user.save({ session }); b is req.params.badgeId
PurchaseBadge(p, b) ==
  /\ LET r == [Begin(p, "buyBadge", b) EXCEPT !.t = now]
     IN IF b \notin BadgeIds \/ b \in deleted
              \/ ~BadgeIsAvailable(Badges[FindBadge(b)], now)
              \/ ~Badges[FindBadge(b)].purchasable
          THEN Start(p, Reject(r, "NotAvailable"))
        ELSE IF Includes(user.badges, b) THEN Start(p, Reject(r, "AlreadyOwned"))
        ELSE IF user.coins < Badges[FindBadge(b)].price
          THEN Start(p, Reject(r, "InsufficientFunds"))
        ELSE Start(p, [r EXCEPT !.pc = "save",
                                  !.wu.coins = @ - Badges[FindBadge(b)].price,
                                  !.wu.badges = Append(@, b)])
  /\ UNCHANGED <<now, user, habit, task, shop, spinLog, awarded, faults, deleted>>

\* await user.save({ session }) of purchaseBadge
PurchaseBadgeSave(p) ==
  /\ req[p].op = "buyBadge" /\ req[p].pc = "save"
  /\ OnlyReq(p, Save(p, [req[p] EXCEPT !.pc = "commit"], {}))
  /\ UNCHANGED <<now, user, habit, task, shop, spinLog, awarded, started, faults, deleted>>

-----------------------------------------------------------------------------
(* Game progress: gameController.js *)

validGameIds == {"word-scrambler", "spin-wheel", "habit-challenge", "cosmic-chess",
                 "recovery-game"}

\* the request bodies the model sends: gameId, xpEarned, actions (at most one)
GameIds == {"spin-wheel", "tetris"}
XpEarned == {-5, 0, 30}
GameActions == {[type |-> "", value |-> 0], [type |-> "completedHabit", value |-> 0]}

\* the values of a streakUpdate action
StreakValues == {0, 2}
StreakActions == {[type |-> "streakUpdate", value |-> v] : v \in StreakValues}

\* a level check that writes the computed level whatever the level read
LevelUp_Always(u) == [u EXCEPT !.level = (u.xp \div 100) + 1]

\* "Check for level up" of the handlers that read the user back after $inc
LevelUp(u) ==
  LET newLevel == (u.xp \div 100) + 1
  IN IF newLevel > u.level THEN [u EXCEPT !.level = newLevel] ELSE u

\* the loop over the badges of the game: u is the user read back by the first
\* update, w the user as the updates of the loop leave it
RECURSIVE GameBadges(_, _, _, _, _)
GameBadges(badges, u, w, gameId, i) ==
  IF i > Len(badges) THEN w
  ELSE LET badge == badges[i]
           found == badge.gameSpecific = gameId /\ badge.isActive
           progress == CASE badge.metric = "gamesPlayed" -> u.playCount
                         [] badge.metric = "totalXP" -> u.totalXP
                         [] OTHER -> 0
       IN GameBadges(badges, u,
            IF found /\ ~Includes(u.badges, badge.id) /\ progress >= badge.threshold
              THEN [w EXCEPT !.badges = Append(@, badge.id),
                             !.xp = @ + badge.xpReward,
                             !.coins = @ + badge.coinReward,
                             !.totalXP = @ + badge.xpReward]
              ELSE w,
            gameId, i + 1)

\* case 'streakUpdate': the $set of gameStats.currentStreak; the $set holds no
\* gameStats.longestStreak, so action.value > undefined || 0 is 0 and the
\* longest streak is never written
StreakUpdate(u, value) == [u EXCEPT !.currentStreak = value]

\* startTransaction, the validation of gameId and the GameProgress upsert
GameLoad(p, gameId, xpEarned, action) ==
  /\ LET r == [Begin(p, "game", gameId) EXCEPT !.xpEarned = xpEarned,
                                               !.upd.badge = action.type,
                                               !.value = action.value]
     IN IF gameId \notin validGameIds
          THEN Start(p, Reject(r, "InvalidGame"))
          ELSE Start(p, Write(p, "progress", [r EXCEPT !.pc = "update"]))
  /\ UNCHANGED <<now, user, habit, task, shop, spinLog, awarded, faults, deleted>>

\* the user update, the level check and the badge loop, all in the session
GameUpdate(p) ==
  /\ req[p].op = "game" /\ req[p].pc = "update"
  /\ LET xpEarned == req[p].xpEarned
         action == req[p].upd.badge
         u0 == [req[p].wu EXCEPT
                  !.xp = @ + xpEarned, !.totalXP = @ + xpEarned,
                  !.playCount = @ + 1,
                  !.completedHabits = @ + (IF action = "completedHabit" THEN 1 ELSE 0)]
         u1 == IF action = "streakUpdate" THEN StreakUpdate(u0, req[p].value) ELSE u0
         u2 == LevelUp(u1)
         u3 == IF xpEarned > 0 \/ action # ""
                 THEN GameBadges(Present(req[p].gone), u1, u2, req[p].arg, 1)
                 ELSE u2
     IN OnlyReq(p, Write(p, "user", [req[p] EXCEPT !.pc = "commit", !.wu = u3]))
  /\ UNCHANGED <<now, user, habit, task, shop, spinLog, awarded, started, faults, deleted>>

-----------------------------------------------------------------------------
(* The shop: ShopItem.statics.purchaseItem, outside any transaction *)

\* the virtual isAvailable of the ShopItem schema
ItemIsAvailable(item, t) ==
  /\ item.isActive
  /\ item.availableUntil = 0 \/ t <= item.availableUntil
  /\ ~item.limitedEdition \/ item.stock > 0

\* findById of the item and of the user, the checks and the changes in memory
ShopLoad(p) ==
  /\ LET r == [Begin(p, "shop", "") EXCEPT !.ws = shop, !.t = now]
     IN IF ~ItemIsAvailable(shop, now) THEN Start(p, Return(r, "NotAvailable"))
        ELSE IF user.coins < shop.coins \/ user.gems < shop.gems
          THEN Start(p, Return(r, "InsufficientFunds"))
        ELSE Start(p,
          [r EXCEPT !.pc = IF shop.limitedEdition THEN "itemSave" ELSE "userSave",
                    !.wu.coins = @ - shop.coins,
                    !.wu.gems = @ - shop.gems,
                    !.wu.badges = IF shop.type = "badge" /\ shop.linkedBadge # ""
                                    THEN Append(@, shop.linkedBadge) ELSE @,
                    !.wu.items = IF shop.type = "badge" /\ shop.linkedBadge # ""
                                   THEN @ ELSE @ + 1])
  /\ UNCHANGED <<now, user, habit, task, shop, spinLog, awarded, faults, deleted>>

\* item.stock -= 1; await item.save(): the stock validator rejects a limited
\* edition left without stock
ShopItemSave(p) ==
  /\ req[p].op = "shop" /\ req[p].pc = "itemSave"
  /\ IF req[p].ws.stock - 1 > 0
       THEN /\ shop' = [shop EXCEPT !.stock = req[p].ws.stock - 1]
            /\ OnlyReq(p, [req[p] EXCEPT !.pc = "userSave", !.ws.stock = @ - 1,
                                         !.wrote = @ \cup {"shop"}])
       ELSE /\ OnlyReq(p, Return(req[p], "ValidationError"))
            /\ UNCHANGED shop
  /\ UNCHANGED <<now, user, habit, task, spinLog, awarded, started, faults, deleted>>

\* await user.save(): $set of the changed numbers, $push of the new badge
ShopUserSave(p) ==
  /\ req[p].op = "shop" /\ req[p].pc = "userSave"
  /\ ~Held(p, "user")
  /\ LET w == LevelHook(req[p].wu, "shop")
         pushed == SubSeq(w.badges, Len(req[p].snap.badges) + 1, Len(w.badges))
     IN user' = [user EXCEPT !.coins = w.coins, !.gems = w.gems,
                             !.badges = @ \o pushed,
                             !.items = @ + (w.items - req[p].snap.items),
                             !.level = IF w.level # req[p].snap.level THEN w.level ELSE @]
  /\ req' = Others(p, {"user"}, [Return(req[p], "ok") EXCEPT !.wrote = @ \cup {"user"}])
  /\ UNCHANGED <<now, habit, task, shop, spinLog, awarded, started, faults, deleted>>

-----------------------------------------------------------------------------
(* Completions: habitController.js, the Habit model, the task controller *)

Day(t) == t \div 24

\* utils/habitUtils.js
calculateStreakBonus(streak) == Min((streak \div 3) * 5, 100)

\* variant: a completion that always adds one to the streak
complete_KeepStreak(h, t) ==
  [h EXCEPT !.completed = TRUE, !.lastCompleted = t,
            !.history = @ \cup {Day(t)}, !.completions = @ + 1,
            !.currentStreak = @ + 1,
            !.longestStreak = Max(h.currentStreak + 1, @),
            !.streakBonus = Min(((h.currentStreak + 1) \div 3) * 5, 100)]

\* HabitSchema.methods.complete, with the pre('save') hook of the schema
complete(h, t) ==
  LET wasCompletedYesterday == (Day(t) - 1) \in h.history
      streak == IF wasCompletedYesterday THEN h.currentStreak + 1 ELSE 1
  IN [h EXCEPT !.completed = TRUE, !.lastCompleted = t,
               !.history = @ \cup {Day(t)}, !.completions = @ + 1,
               !.currentStreak = streak,
               !.longestStreak = Max(streak, @),
               !.streakBonus = Min((streak \div 3) * 5, 100)]

\* a $inc that leaves gameStats.totalXP out
Award_XpOnly(u, xp, counter) ==
  LevelUp([u EXCEPT !.xp = @ + xp, ![counter] = @ + 1])

\* the $inc of a completion followed by the level check; counter names the
\* completion counter
Award(u, xp, counter) ==
  LevelUp([u EXCEPT !.xp = @ + xp, !.totalXP = @ + xp, ![counter] = @ + 1])

\* levelUp of the response of a completion: u is the user before the $inc, 0
\* stands for null
ResponseLevelUp(u, xp) ==
  LET newLevel == ((u.xp + xp) \div 100) + 1
  IN IF newLevel > u.level THEN newLevel ELSE 0

\* startTransaction; Habit.findById(id).session(session); id is req.params.id
HabitLoad(p, id) ==
  /\ LET r == [Begin(p, "habit", id) EXCEPT !.wh = habit, !.t = now]
     IN IF id # "habit" THEN Start(p, Raise(r, "NotFound"))
        ELSE Start(p, [r EXCEPT !.pc = "complete"])
  /\ UNCHANGED <<now, user, habit, task, shop, spinLog, awarded, faults, deleted>>

\* variant: the save of habit.complete goes to the store outside the transaction
HabitComplete_NoSession(p) ==
  /\ req[p].op = "habit" /\ req[p].pc = "complete"
  /\ ~Held(p, "habit")
  /\ habit' = complete(habit, now)
  /\ req' = Others(p, {"habit"}, [req[p] EXCEPT !.pc = "award", !.wh = complete(@, now),
                                                !.wrote = @ \cup {"habit"}])
  /\ UNCHANGED <<now, user, task, shop, spinLog, awarded, started, faults, deleted>>

\* await habit.complete(...): the document came from the session and saves in it
HabitComplete(p) ==
  /\ req[p].op = "habit" /\ req[p].pc = "complete"
  /\ OnlyReq(p, Write(p, "habit", [req[p] EXCEPT !.pc = "award",
                                                  !.wh = complete(@, now)]))
  /\ UNCHANGED <<now, user, habit, task, shop, spinLog, awarded, started, faults, deleted>>

\* the xp of the completion, the user update and the level check
HabitAward(p) ==
  /\ req[p].op = "habit" /\ req[p].pc = "award"
  /\ LET xpEarned == req[p].wh.baseXP + calculateStreakBonus(req[p].wh.currentStreak)
     IN OnlyReq(p, Write(p, "user",
          [req[p] EXCEPT !.pc = "commit", !.xpEarned = xpEarned,
                         !.levelUp = ResponseLevelUp(req[p].wu, xpEarned),
                         !.wu = Award(@, xpEarned, "completedHabits")]))
  /\ UNCHANGED <<now, user, habit, task, shop, spinLog, awarded, started, faults, deleted>>

\* the virtuals totalXP and isOverdue of the Task schema
TaskTotalXP(t) == t.baseXP * t.priorityMultiplier + t.streakBonus
TaskIsOverdue(t, time) == t.dueDate # 0 /\ time > t.dueDate /\ ~t.completed

\* startTransaction; Task.findOne(...).session(session); the task is marked
\* completed in memory
TaskLoad(p, id) ==
  /\ LET r == [Begin(p, "task", id) EXCEPT !.wt = task, !.t = now]
     IN IF id # "task" THEN Start(p, Raise(r, "NotFound"))
        ELSE Start(p, [r EXCEPT !.pc = "award", !.wt.completed = TRUE])
  /\ UNCHANGED <<now, user, habit, task, shop, spinLog, awarded, faults, deleted>>

\* the xp with the on-time bonus of 20%, the user update and the level check;
\* the task xp of the model is a multiple of 5, so the bonus is a whole number
TaskAward(p) ==
  /\ req[p].op = "task" /\ req[p].pc = "award"
  /\ LET xpEarned == TaskTotalXP(req[p].wt)
         onTimeBonus == IF ~TaskIsOverdue(req[p].wt, now) THEN xpEarned \div 5 ELSE 0
         totalXP == xpEarned + onTimeBonus
     IN OnlyReq(p, Write(p, "user",
          [req[p] EXCEPT !.pc = "taskSave", !.xpEarned = totalXP,
                         !.levelUp = ResponseLevelUp(req[p].wu, totalXP),
                         !.wu = Award(@, totalXP, "completedTasks")]))
  /\ UNCHANGED <<now, user, habit, task, shop, spinLog, awarded, started, faults, deleted>>

\* await task.save({ session })
TaskSave(p) ==
  /\ req[p].op = "task" /\ req[p].pc = "taskSave"
  /\ OnlyReq(p, Write(p, "task", [req[p] EXCEPT !.pc = "commit"]))
  /\ UNCHANGED <<now, user, habit, task, shop, spinLog, awarded, started, faults, deleted>>

-----------------------------------------------------------------------------
(* Streaks: HabitSchema.statics.calculateStreaks, outside any transaction *)

\* the last hour the clock of the streak specifications reaches
MaxStreakHour == 96

\* a day passes
NextDay ==
  /\ now + 24 <= MaxStreakHour
  /\ now' = now + 24
  /\ UNCHANGED <<user, habit, task, shop, req, spinLog, awarded, started, faults, deleted>>

\* the day of the last entry of completionHistory, -1 for an empty history
LastDate(h) == IF h.history = {} THEN -1 ELSE Day(h.lastCompleted)

\* the body of the loop of calculateStreaks on the loaded habit h; the
\* pre('save') hook sets the streak bonus
Recalculate(h, t) ==
  LET streak == IF LastDate(h) = Day(t) THEN h.currentStreak + 1 ELSE 0
  IN [h EXCEPT !.currentStreak = streak,
               !.longestStreak = IF LastDate(h) = Day(t) THEN Max(streak, @) ELSE @,
               !.streakBonus = Min((streak \div 3) * 5, 100)]

\* habit.save() of a document loaded as h and changed to w: the update sets
\* the paths whose value changed, on the habit as it is stored now
SaveModified(stored, h, w) ==
  [stored EXCEPT
     !.currentStreak = IF w.currentStreak # h.currentStreak THEN w.currentStreak ELSE @,
     !.longestStreak = IF w.longestStreak # h.longestStreak THEN w.longestStreak ELSE @,
     !.streakBonus = IF w.streakBonus # h.streakBonus THEN w.streakBonus ELSE @]

\* calculateStreaks: this.find({ userId }) and today
StreaksLoad(p) ==
  /\ Start(p, [Begin(p, "streaks", "") EXCEPT !.pc = "save", !.wh = habit, !.t = now])
  /\ UNCHANGED <<now, user, habit, task, shop, spinLog, awarded, faults, deleted>>

\* calculateStreaks: the loop body and await habit.save()
StreaksSave(p) ==
  /\ req[p].op = "streaks" /\ req[p].pc = "save"
  /\ ~Held(p, "habit")
  /\ habit' = SaveModified(habit, req[p].wh, Recalculate(req[p].wh, req[p].t))
  /\ req' = Others(p, {"habit"},
                   [Return(req[p], "ok") EXCEPT !.wh = Recalculate(@, req[p].t),
                                                !.wrote = {"habit"}])
  /\ UNCHANGED <<now, user, task, shop, spinLog, awarded, started, faults, deleted>>

-----------------------------------------------------------------------------
(* Streak protection: InventoryItem applyEffect and User checkActiveBoosts *)

\* effects.duration, in hours, of the powerup with effects.streakProtection
ProtectionHours == 48

\* InventoryItemSchema.methods.applyEffect(userId) of that powerup: the $set of
\* gameStats.streakProtection with its expiry
applyEffect(p) ==
  /\ ~Held(p, "user")
  /\ req[p].op = "idle" /\ started < MaxRequests
  /\ started' = started + 1
  /\ user' = [user EXCEPT !.streakProtection = now + ProtectionHours]
  /\ req' = Others(p, {"user"},
                   [Return(Begin(p, "effect", ""), "ok") EXCEPT !.wrote = {"user"},
                                                                 !.t = now])
  /\ UNCHANGED <<now, habit, task, shop, spinLog, awarded, faults, deleted>>

\* UserSchema.methods.checkActiveBoosts on the stored user: an expired streak
\* protection is removed and the user saved
checkActiveBoosts(p) ==
  /\ ~Held(p, "user")
  /\ req[p].op = "idle" /\ started < MaxRequests
  /\ started' = started + 1
  /\ LET needsUpdate == user.streakProtection # 0 /\ user.streakProtection <= now
         r == [Begin(p, "boosts", "") EXCEPT !.t = now]
     IN IF needsUpdate
          THEN /\ user' = LevelHook([user EXCEPT !.streakProtection = 0], "boosts")
               /\ req' = Others(p, {"user"},
                                [Return(r, "ok") EXCEPT !.wrote = {"user"}])
          ELSE /\ OnlyReq(p, Return(r, "ok"))
               /\ UNCHANGED user
  /\ UNCHANGED <<now, habit, task, shop, spinLog, awarded, faults, deleted>>

-----------------------------------------------------------------------------
(* Purchases of items: userController.js and UserSchema.methods.purchaseItem *)

\* the item of the inventory shop
StoreItem == [price |-> 10]

\* the costs passed to UserSchema.methods.purchaseItem
Costs == {[coins |-> 10, gems |-> 0], [coins |-> 10, gems |-> 5]}

\* variant: the controller without the comparison of coins with the price
ItemLoad_NoCheck(p, found) ==
  /\ LET r == [Begin(p, "buyItem", "") EXCEPT !.upd.coins = StoreItem.price]
     IN IF ~found THEN Start(p, Raise(r, "NotFound"))
        ELSE Start(p, [r EXCEPT !.pc = "save", !.wu.items = @ + 1,
                                !.wu.coins = @ - StoreItem.price])
  /\ UNCHANGED <<now, user, habit, task, shop, spinLog, awarded, faults, deleted>>

\* purchaseItem of the controller up to user.save; found: Item.findById finds it
ItemLoad(p, found) ==
  /\ LET r == [Begin(p, "buyItem", "") EXCEPT !.upd.coins = StoreItem.price]
     IN IF ~found THEN Start(p, Raise(r, "NotFound"))
        ELSE IF user.coins < StoreItem.price
          THEN Start(p, Raise(r, "InsufficientFunds"))
        ELSE Start(p, [r EXCEPT !.pc = "save", !.wu.items = @ + 1,
                                !.wu.coins = @ - StoreItem.price])
  /\ UNCHANGED <<now, user, habit, task, shop, spinLog, awarded, faults, deleted>>

\* await user.save({ session }) of the controller
ItemSave(p) ==
  /\ req[p].op = "buyItem" /\ req[p].pc = "save"
  /\ OnlyReq(p, Save(p, [req[p] EXCEPT !.pc = "commit"], {}))
  /\ UNCHANGED <<now, user, habit, task, shop, spinLog, awarded, started, faults, deleted>>

\* UserSchema.methods.purchaseItem(item, cost) on the stored user: the check,
\* the changes and this.save(), which runs the validators and the level hook
purchaseItem(p, cost) ==
  /\ ~Held(p, "user")
  /\ LET r == [Begin(p, "method", "") EXCEPT !.upd.coins = cost.coins,
                                             !.upd.xp = cost.gems]
         w == LevelHook([user EXCEPT !.coins = @ - cost.coins,
                                     !.gems = @ - cost.gems,
                                     !.items = @ + 1,
                                     !.shopPurchases = @ + 1], "method")
     IN IF user.coins < cost.coins \/ (cost.gems # 0 /\ user.gems < cost.gems)
          THEN /\ Start(p, Return(r, "InsufficientFunds"))
               /\ UNCHANGED user
          ELSE /\ started < MaxRequests /\ req[p].op = "idle"
               /\ started' = started + 1
               /\ user' = w
               /\ req' = Others(p, {"user"},
                                [Return(r, "ok") EXCEPT !.wrote = {"user"}])
  /\ UNCHANGED <<now, habit, task, shop, spinLog, awarded, faults, deleted>>

-----------------------------------------------------------------------------
(* UserSchema.methods.addXP *)

\* the amounts passed to addXP
AddXPAmounts == {100, 300}

\* UserSchema.methods.addXP(amount) on the stored user, with this.save() and its
\* level hook; the user of the model has no active boost, so xpMultiplier is 1.
\* The result compares potentialLevel with this.level after the assignment.
addXP(p, amount) ==
  /\ ~Held(p, "user")
  /\ req[p].op = "idle" /\ started < MaxRequests
  /\ started' = started + 1
  /\ LET xpMultiplier == 1
         adjustedAmount == amount * xpMultiplier
         u1 == [user EXCEPT !.xp = @ + adjustedAmount,
                            !.totalXP = @ + adjustedAmount]
         potentialLevel == ISqrt(u1.xp \div 100) + 1
         u2 == IF potentialLevel > u1.level
                 THEN [u1 EXCEPT !.level = Min(potentialLevel, 100)] ELSE u1
         r == [Begin(p, "addXP", "") EXCEPT
                 !.wu = u2, !.xpEarned = adjustedAmount, !.wrote = {"user"},
                 !.result = [xpGained |-> adjustedAmount,
                             levelUp |-> potentialLevel > u2.level]]
     IN /\ user' = LevelHook(u2, "addXP")
        /\ req' = Others(p, {"user"}, Return(r, "ok"))
  /\ UNCHANGED <<now, habit, task, shop, spinLog, awarded, faults, deleted>>

-----------------------------------------------------------------------------
(* Failures of the store *)

\* an awaited store call of a handler that runs in a transaction throws
Fault(p) ==
  /\ Active(p)
  /\ req[p].pc \notin {"catch", "done"}
  /\ req[p].op # "shop"
  /\ faults < MaxFaults
  /\ faults' = faults + 1
  /\ OnlyReq(p, [Throw(p, "StoreError") EXCEPT
                   !.called = IF req[p].pc = "commit"
                                THEN Append(@, "commit") ELSE @])
  /\ UNCHANGED <<now, user, habit, task, shop, spinLog, awarded, started, deleted>>

-----------------------------------------------------------------------------
(* Specifications *)

Init ==
  /\ now = StartHour
  /\ user = NewUser(0, 0)
  /\ habit = NewHabit
  /\ \E b \in TaskXPs : task = NewTask(b)
  /\ shop = NewShop
  /\ req = [p \in Procs |-> IdleReq]
  /\ spinLog = <<>>
  /\ awarded = [xp |-> 0, n |-> 0]
  /\ started = 0
  /\ faults = 0
  /\ deleted = {}

End(p) == Commit(p) \/ Catch(p) \/ Finish(p)

NextSpin ==
  \/ Tick
  \/ \E p \in Procs : SpinLoad(p) \/ SpinCheck(p) \/ SpinUpdate(p) \/ SpinLog(p)
  \/ \E p \in Procs : End(p)

SpecSpin == Init /\ [][NextSpin]_vars

-----------------------------------------------------------------------------
(* Leaderboards (leaderboardController.js, userController.js).  A request   *)
(* reads the users or the gameprogresses collection, which the model draws  *)
(* with it; documents are listed in insertion order and a user's _id is its *)
(* place in that order.  The value at a path is a sequence: empty when the  *)
(* document has no such path, else holding the value.                       *)

MaxUsers == 2

LeaderGames == {"spin-wheel", "word-scrambler"}

\* User documents: xp, gameStats.currentStreak and gameStats.lastActive
UserDocs ==
  [xp : {0, 50, 120},
   gameStats : [currentStreak : {0, 3}, lastActive : {0, 30, 48}]]

\* GameProgress documents
ProgressDocs ==
  [userId : 1..MaxUsers, gameId : LeaderGames, xpEarned : {0, 30},
   highestScore : {0, 7}, lastPlayed : {0, 48}]

SeqsUpTo(S, n) == UNION {[1..k -> S] : k \in 0..n}

UserCollections ==
  {[i \in 1..Len(c) |-> [_id |-> i] @@ c[i]] : c \in SeqsUpTo(UserDocs, MaxUsers)}

\* the collection has a unique index on (userId, gameId)
ProgressCollections ==
  {c \in SeqsUpTo(ProgressDocs, MaxUsers) :
     \A i, j \in 1..Len(c) :
       (i # j) => (c[i].userId # c[j].userId \/ c[i].gameId # c[j].gameId)}

LEADERBOARD_TYPES ==
  [GLOBAL_XP |-> [collection |-> "users", sortField |-> "xp", groupField |-> ""],
   GAME_XP |-> [collection |-> "gameprogresses", sortField |-> "xpEarned",
                groupField |-> "gameId"],
   WEEKLY_STREAK |-> [collection |-> "users",
                      sortField |-> "gameStats.currentStreak", groupField |-> ""],
   GAME_SPECIFIC |-> [collection |-> "gameprogresses", sortField |-> "highestScore",
                      groupField |-> "gameId"]]

LeaderTypes == DOMAIN LEADERBOARD_TYPES
Timeframes == {"", "daily", "weekly", "monthly"}
Limits == {1, 100}

\* the value of a document at a (possibly dotted) path
Path(doc, path) ==
  IF path \in DOMAIN doc THEN <<doc[path]>>
  ELSE IF path = "gameStats.currentStreak" /\ "gameStats" \in DOMAIN doc
    THEN <<doc.gameStats.currentStreak>>
  ELSE IF path = "gameStats.lastActive" /\ "gameStats" \in DOMAIN doc
    THEN <<doc.gameStats.lastActive>>
  ELSE <<>>

\* the $gte bound of the timeframe, null (empty) for any other word; a month
\* is taken as 30 days
getDateFilter(timeframe, t) ==
  CASE timeframe = "daily" -> <<t - 24>>
    [] timeframe = "weekly" -> <<t - 7 * 24>>
    [] timeframe = "monthly" -> <<t - 30 * 24>>
    [] OTHER -> <<>>

\* the query of getLeaderboard: the conditions of the $match stage
LeaderQuery(config, gameId, timeframe, t) ==
  LET dateFilter == IF timeframe # "" THEN getDateFilter(timeframe, t) ELSE <<>>
      byDate == IF dateFilter = <<>> THEN <<>>
                ELSE <<[path |-> IF config.collection = "users"
                                   THEN "lastActive" ELSE "lastPlayed",
                        op |-> "$gte", val |-> dateFilter[1]]>>
      byGame == IF config.groupField # "" /\ gameId # ""
                  THEN <<[path |-> config.groupField, op |-> "$eq", val |-> gameId]>>
                  ELSE <<>>
  IN byDate \o byGame

\* $match: a condition on a path the document does not have is not met
Matches(doc, query) ==
  \A i \in 1..Len(query) :
    LET v == Path(doc, query[i].path)
    IN /\ v # <<>>
       /\ IF query[i].op = "$gte" THEN v[1] >= query[i].val
                                  ELSE v[1] = query[i].val

Match(c, query) == SelectSeq(c, LAMBDA d : Matches(d, query))

RECURSIVE SumPath(_, _)
SumPath(docs, path) ==
  IF docs = <<>> THEN 0
  ELSE (IF Path(Head(docs), path) = <<>> THEN 0 ELSE Path(Head(docs), path)[1])
         + SumPath(Tail(docs), path)

\* $group by userId: the sum of the sort field and the first gameId
Group(docs, config) ==
  LET ids == SelectSeq([u \in 1..MaxUsers |-> u],
                       LAMBDA u : \E i \in 1..Len(docs) : docs[i].userId = u)
      of(u) == SelectSeq(docs, LAMBDA d : d.userId = u)
  IN [k \in 1..Len(ids) |->
        [_id |-> ids[k], score |-> SumPath(of(ids[k]), config.sortField),
         gameId |-> of(ids[k])[1].gameId]]

Perms(n) == {f \in [1..n -> 1..n] : \A i, j \in 1..n : (i # j) => f[i] # f[j]}

\* $sort descending: every order of the documents that is descending at the
\* path (the store chooses among documents of equal value)
SortDesc(docs, path) ==
  {[i \in 1..Len(docs) |-> docs[f[i]]] :
     f \in {g \in Perms(Len(docs)) :
              \A i \in 1..(Len(docs) - 1) :
                Path(docs[g[i]], path)[1] >= Path(docs[g[i + 1]], path)[1]}}

\* $limit
Limit(docs, limit) == SubSeq(docs, 1, Min(limit, Len(docs)))

\* $indexOfArray: [v, v] for the value v at a path: null for a missing
\* path, and an error of the aggregation for a value that is not an array
\* (the scores are numbers)
indexOfArray(v) == IF v = <<>> THEN "null" ELSE "error"

\* $addFields rank and $project: the entries, or the error of the aggregation
AddRank(docs, path) ==
  IF \E i \in 1..Len(docs) : indexOfArray(Path(docs[i], path)) = "error"
    THEN [out |-> "MongoServerError", board |-> <<>>]
    ELSE [out |-> "ok",
          board |-> [i \in 1..Len(docs) |->
                       [rank |-> <<>>, score |-> Path(docs[i], path),
                        id |-> docs[i]._id]]]

\* every answer the users pipeline can give
buildUserPipeline(c, config, query, limit) ==
  {AddRank(Limit(s, limit), config.sortField) :
     s \in SortDesc(Match(c, query), config.sortField)}

\* every answer the game progress pipeline can give
buildGameProgressPipeline(c, config, query, limit) ==
  {AddRank(Limit(s, limit), "score") :
     s \in SortDesc(Group(Match(c, query), config), "score")}

\* GET /api/leaderboard
getLeaderboard ==
  /\ req[1].op = "idle"
  /\ \E type \in LeaderTypes \cup {"NO_SUCH"}, limit \in Limits, timeframe \in Timeframes :
       IF type \notin LeaderTypes
         THEN req' = [req EXCEPT ![1] = [Return(IdleReq, "400") EXCEPT
                        !.op = "leaderboard", !.t = now,
                        !.arg = [type |-> type, gameId |-> "", limit |-> limit,
                                 timeframe |-> timeframe]]]
         ELSE LET config == LEADERBOARD_TYPES[type]
                  users == config.collection = "users"
              IN \E gameId \in (IF users THEN {""} ELSE {""} \cup LeaderGames) :
                 \E c \in (IF users THEN UserCollections ELSE ProgressCollections) :
                   LET query == LeaderQuery(config, gameId, timeframe, now)
                   IN \E res \in (IF users
                                    THEN buildUserPipeline(c, config, query, limit)
                                    ELSE buildGameProgressPipeline(c, config, query, limit)) :
                        req' = [req EXCEPT ![1] = [Return(IdleReq, res.out) EXCEPT
                                  !.op = "leaderboard", !.t = now,
                                  !.arg = [type |-> type, gameId |-> gameId,
                                           limit |-> limit, timeframe |-> timeframe],
                                  !.coll = c, !.board = res.board]]
  /\ UNCHANGED <<now, user, habit, task, shop, spinLog, awarded, started, faults, deleted>>

\* mongoose.Types.ObjectId(userId): with mongoose 8 the ObjectId is a class,
\* and calling it without new throws a TypeError (no value)
ObjectId(userId) == <<>>

\* $setWindowFields with $rank over the descending sort: one more than the
\* number of documents with a greater value
WindowRank(docs, path) ==
  [i \in 1..Len(docs) |->
     [rank |-> 1 + Cardinality({j \in 1..Len(docs) :
                                  Path(docs[j], path)[1] > Path(docs[i], path)[1]})]
       @@ docs[i]]

getUserRank(c, userId, sortField) ==
  LET id == ObjectId(userId)
  IN IF id = <<>> THEN [out |-> "TypeError", rank |-> 0]
     ELSE LET result == SelectSeq(WindowRank(c, sortField), LAMBDA d : d._id = id[1])
          IN [out |-> "ok", rank |-> IF result = <<>> THEN 0 ELSE result[1].rank]

getGameProgressRank(c, userId, gameId, sortField) ==
  LET id == ObjectId(userId)
  IN IF id = <<>> THEN [out |-> "TypeError", rank |-> 0]
     ELSE LET ofGame == SelectSeq(c, LAMBDA d : d.gameId = gameId)
              result == SelectSeq(WindowRank(ofGame, sortField),
                                  LAMBDA d : d.userId = id[1])
          IN [out |-> "ok", rank |-> IF result = <<>> THEN 0 ELSE result[1].rank]

\* GET /api/leaderboard/position, asked by the user userId
getUserPosition ==
  /\ req[1].op = "idle"
  /\ \E type \in LeaderTypes, userId \in 1..MaxUsers :
       LET config == LEADERBOARD_TYPES[type]
           users == config.collection = "users"
       IN \E gameId \in (IF users THEN {""} ELSE {""} \cup LeaderGames) :
          \E c \in (IF users THEN UserCollections ELSE ProgressCollections) :
            LET position ==
                  IF users THEN getUserRank(c, userId, config.sortField)
                  ELSE IF gameId = "" THEN [out |-> "400", rank |-> 0]
                  ELSE getGameProgressRank(c, userId, gameId, config.sortField)
            IN req' = [req EXCEPT ![1] = [Return(IdleReq, position.out) EXCEPT
                         !.op = "position", !.t = now,
                         !.arg = [type |-> type, gameId |-> gameId, userId |-> userId],
                         !.coll = c, !.value = position.rank]]
  /\ UNCHANGED <<now, user, habit, task, shop, spinLog, awarded, started, faults, deleted>>

\* GET /api/users/leaderboard-position, asked by a user of the collection
getLeaderboardPosition ==
  /\ req[1].op = "idle"
  /\ \E c \in UserCollections :
     \E userId \in 1..Len(c) :
       LET rank == Cardinality({j \in 1..Len(c) : c[j].xp > c[userId].xp}) + 1
       IN req' = [req EXCEPT ![1] = [Return(IdleReq, "ok") EXCEPT
                    !.op = "leaderboardPosition", !.t = now,
                    !.arg = [type |-> "GLOBAL_XP", gameId |-> "", userId |-> userId],
                    !.coll = c, !.value = rank]]
  /\ UNCHANGED <<now, user, habit, task, shop, spinLog, awarded, started, faults, deleted>>

NextBoard == Tick \/ getLeaderboard \/ getUserPosition \/ getLeaderboardPosition

SpecBoard == Init /\ [][NextBoard]_vars

\* the badges whose evaluation is followed on its own: the first of the
\* catalogue, and two that are earned by total xp
EvalBadges ==
  {Badges[1],
   [BadgeDoc("scholar", "totalXP", "", 30, 0, FALSE, 0, TRUE, 1, 0) EXCEPT !.threshold = 40],
   [BadgeDoc("master", "totalXP", "", 0, 5, FALSE, 0, TRUE, 1, 0) EXCEPT !.threshold = 70]}

\* the catalogues: the badges of EvalBadges, each at most once, in any order
Catalogues ==
  {c \in SeqsUpTo(EvalBadges, Cardinality(EvalBadges)) :
     \A i, j \in 1..Len(c) : (i # j) => c[i] # c[j]}

\* the gameStats loaded at the start of the call
EvalSnapshots ==
  {[NewUser(0, 0) EXCEPT !.totalXP = x, !.completedHabits = h, !.badges = bs] :
     x \in {0, 30, 60}, h \in {0, 1}, bs \in {<<>>, <<"scholar">>}}

\* the evaluation of checkAndAwardBadges: the loop over the catalogue and the
\* totals added after it
EvaluateBadges ==
  /\ req[1].op = "idle"
  /\ \E u \in EvalSnapshots, c \in Catalogues :
       LET acc == AwardLoopOver(c, u, 1, <<u.badges, 0, 0>>)
       IN req' = [req EXCEPT ![1] = [Return(IdleReq, "ok") EXCEPT
                    !.op = "evaluate", !.snap = u, !.coll = c,
                    !.wu = [u EXCEPT !.badges = acc[1], !.totalXP = @ + acc[2]],
                    !.xpEarned = acc[2], !.value = acc[3]]]
  /\ UNCHANGED <<now, user, habit, task, shop, spinLog, awarded, started, faults, deleted>>

NextEval == EvaluateBadges

SpecEval == Init /\ [][NextEval]_vars

\* $pull: the array without any occurrence of the value
Pull(s, x) == SelectSeq(s, LAMBDA y : y # x)

\* deleteBadge, first call: Badge.findByIdAndDelete, outside any transaction
DeleteBadge(p, b) ==
  /\ LET r == [Begin(p, "deleteBadge", b) EXCEPT !.t = now]
     IN IF b \notin BadgeIds \/ b \in deleted
          THEN /\ Start(p, Return(r, "NotFound"))
               /\ UNCHANGED deleted
          ELSE /\ Start(p, [r EXCEPT !.pc = "pull"])
               /\ deleted' = deleted \cup {b}
  /\ UNCHANGED <<now, user, habit, task, shop, spinLog, awarded, faults>>

\* deleteBadge, second call: User.updateMany with $pull on the users that
\* hold the badge, outside any transaction
DeleteBadgePull(p) ==
  /\ req[p].op = "deleteBadge" /\ req[p].pc = "pull"
  /\ IF Includes(user.badges, req[p].arg)
       THEN /\ ~Held(p, "user")
            /\ user' = [user EXCEPT !.badges = Pull(@, req[p].arg)]
            /\ req' = Others(p, {"user"},
                             [Return(req[p], "ok") EXCEPT !.wrote = {"user"}])
       ELSE /\ OnlyReq(p, Return(req[p], "ok"))
            /\ UNCHANGED user
  /\ UNCHANGED <<now, habit, task, shop, spinLog, awarded, started, faults, deleted>>

NextDelete ==
  \/ \E p \in Procs, b \in {"gamer", "gold", "nosuch"} : DeleteBadge(p, b)
  \/ \E p \in Procs : DeleteBadgePull(p)
  \/ \E p \in Procs : CheckLoad(p) \/ CheckAward(p)
  \/ \E p \in Procs, b \in {"gold", "nosuch"} : PurchaseBadge(p, b)
  \/ \E p \in Procs : PurchaseBadgeSave(p)
  \/ \E p \in Procs, g \in {"spin-wheel"}, x \in {0, 30}, a \in GameActions :
       GameLoad(p, g, x, a)
  \/ \E p \in Procs : GameUpdate(p)
  \/ \E p \in Procs : End(p)

SpecDelete == Init /\ [][NextDelete]_vars

\* the Badge documents whose availability is read: active or not, with or
\* without the ends of the time window (a set availableUntil lies after
\* availableFrom, as the schema validates)
WindowBadges ==
  {badge \in {[BadgeDoc("any", "streak", "", 0, 0, buy, 10, act, from, until)
                 EXCEPT !.threshold = 1] :
                buy \in BOOLEAN, act \in BOOLEAN,
                from \in {0, 24, 60, 1000}, until \in {0, 24, 60, 2000}} :
     badge.availableUntil = 0 \/ badge.availableUntil > badge.availableFrom}

\* a read of the virtual isAvailable of a Badge document at the current time
DrawAvailable ==
  /\ req[1].op = "idle"
  /\ \E badge \in WindowBadges :
       req' = [req EXCEPT ![1] = [Return(IdleReq, IF BadgeIsAvailable(badge, now)
                                                   THEN "true" ELSE "false")
                                   EXCEPT !.op = "isAvailable", !.t = now,
                                          !.coll = <<badge>>]]
  /\ UNCHANGED <<now, user, habit, task, shop, spinLog, awarded, started, faults, deleted>>

NextAvailable == Tick \/ DrawAvailable

SpecAvailable == Init /\ [][NextAvailable]_vars

\* the virtual nextLevelXP of a User document
nextLevelXP(u) == u.level * u.level * 100

\* the virtual xpProgress of a User document, in percent, as the exact
\* fraction num / den: Math.min(((xp - currentLevelXP) / (nextLevelXP -
\* currentLevelXP)) * 100, 100)
xpProgress(u) ==
  LET currentLevelXP == (u.level - 1) * (u.level - 1) * 100
      den == nextLevelXP(u) - currentLevelXP
  IN [num |-> Min((u.xp - currentLevelXP) * 100, 100 * den), den |-> den]

NextTier == DrawTier

SpecTier == Init /\ [][NextTier]_vars

NextReward == DrawReward

SpecReward == Init /\ [][NextReward]_vars

Spin(p) == SpinLoad(p) \/ SpinCheck(p) \/ SpinUpdate(p) \/ SpinLog(p)

NextBadge ==
  \/ \E p \in Procs : CheckLoad(p) \/ CheckAward(p)
  \/ \E p \in Procs, b \in BadgeIds \cup {"nosuch"} : PurchaseBadge(p, b)
  \/ \E p \in Procs : PurchaseBadgeSave(p)
  \/ \E p \in Procs, g \in GameIds, x \in XpEarned, a \in GameActions :
       GameLoad(p, g, x, a)
  \/ \E p \in Procs : GameUpdate(p)
  \/ \E p \in Procs : ShopLoad(p) \/ ShopItemSave(p) \/ ShopUserSave(p)
  \/ \E p \in Procs : Spin(p)
  \/ \E p \in Procs : End(p)

SpecBadge == Init /\ [][NextBadge]_vars

Habit(p) == (\E id \in {"habit", "nosuch"} : HabitLoad(p, id))
              \/ HabitComplete(p) \/ HabitAward(p)
Task(p) == (\E id \in {"task", "nosuch"} : TaskLoad(p, id))
             \/ TaskAward(p) \/ TaskSave(p)

\* tasks with a due date: none, one that has passed at the start, and one
\* that lies ahead
DueDates == {0, 36, 60}

InitDue ==
  /\ now = StartHour
  /\ user = NewUser(0, 0)
  /\ habit = NewHabit
  /\ \E b \in TaskXPs, d \in DueDates : task = [NewTask(b) EXCEPT !.dueDate = d]
  /\ shop = NewShop
  /\ req = [p \in Procs |-> IdleReq]
  /\ spinLog = <<>>
  /\ awarded = [xp |-> 0, n |-> 0]
  /\ started = 0
  /\ faults = 0
  /\ deleted = {}

NextDue ==
  \/ Tick
  \/ \E p \in Procs : Task(p)
  \/ \E p \in Procs : End(p)

SpecDue == InitDue /\ [][NextDue]_vars

\* two calls of checkAndAwardBadges in sequence: the second starts when the
\* first has finished, and the first starts only while no second is under way
FirstCheck == req[2].op = "idle" /\ CheckLoad(1)

SecondCheck == req[1].op = "check" /\ req[1].pc = "done" /\ CheckLoad(2)

NextTwice ==
  \/ \E x \in XpEarned, a \in GameActions : GameLoad(1, "spin-wheel", x, a)
  \/ GameUpdate(1)
  \/ FirstCheck
  \/ SecondCheck
  \/ \E p \in Procs : CheckAward(p)
  \/ \E p \in Procs : End(p)

SpecTwice == Init /\ [][NextTwice]_vars

NextComplete ==
  \/ Tick
  \/ \E p \in Procs : Habit(p)
  \/ \E p \in Procs : Task(p)
  \/ \E p \in Procs : End(p)

SpecComplete == Init /\ [][NextComplete]_vars

NextLedger ==
  \/ \E p \in Procs : Habit(p)
  \/ \E p \in Procs : Task(p)
  \/ \E p \in Procs : Spin(p)
  \/ \E p \in Procs : CheckLoad(p) \/ CheckAward(p)
  \/ \E p \in Procs, found \in BOOLEAN : ItemLoad(p, found)
  \/ \E p \in Procs : ItemSave(p)
  \/ \E p \in Procs, b \in {"gold", "retired", "nosuch"} : PurchaseBadge(p, b)
  \/ \E p \in Procs : PurchaseBadgeSave(p)
  \/ \E p \in Procs : Fault(p)
  \/ \E p \in Procs : End(p)

SpecLedger == Init /\ [][NextLedger]_vars

NextShop ==
  \/ \E p \in Procs, found \in BOOLEAN : ItemLoad(p, found)
  \/ \E p \in Procs : ItemSave(p)
  \/ \E p \in Procs, cost \in Costs : purchaseItem(p, cost)
  \/ \E p \in Procs : ShopLoad(p) \/ ShopItemSave(p) \/ ShopUserSave(p)
  \/ \E p \in Procs, b \in {"gold", "retired", "nosuch"} : PurchaseBadge(p, b)
  \/ \E p \in Procs : PurchaseBadgeSave(p)
  \/ \E p \in Procs, g \in GameIds, x \in XpEarned, a \in GameActions :
       GameLoad(p, g, x, a)
  \/ \E p \in Procs : GameUpdate(p)
  \/ \E p \in Procs : End(p)

SpecShop == Init /\ [][NextShop]_vars

NextLevel ==
  \/ \E p \in Procs : Habit(p)
  \/ \E p \in Procs : Task(p)
  \/ \E p \in Procs : Spin(p)
  \/ \E p \in Procs, amount \in AddXPAmounts : addXP(p, amount)
  \/ \E p \in Procs : End(p)

SpecLevel == Init /\ [][NextLevel]_vars

\* habits as earlier completions left them: new, completed two days ago, and
\* completed two days ago and yesterday
PriorHabits ==
  {NewHabit, complete(NewHabit, StartHour - 48),
   complete(complete(NewHabit, StartHour - 48), StartHour - 24)}

InitStreak ==
  /\ now = StartHour
  /\ user = NewUser(0, 0)
  /\ habit \in PriorHabits
  /\ task = NewTask(DefaultTaskXP)
  /\ shop = NewShop
  /\ req = [p \in Procs |-> IdleReq]
  /\ spinLog = <<>>
  /\ awarded = [xp |-> 0, n |-> 0]
  /\ started = 0
  /\ faults = 0
  /\ deleted = {}

NextStreak ==
  \/ NextDay
  \/ \E p \in Procs : Habit(p)
  \/ \E p \in Procs : StreaksLoad(p) \/ StreaksSave(p)
  \/ \E p \in Procs, g \in GameIds, a \in StreakActions : GameLoad(p, g, 0, a)
  \/ \E p \in Procs : GameUpdate(p)
  \/ \E p \in Procs : End(p)

SpecStreak == InitStreak /\ [][NextStreak]_vars

NextProtect ==
  \/ NextDay
  \/ \E p \in Procs : Habit(p)
  \/ \E p \in Procs : applyEffect(p)
  \/ \E p \in Procs : checkActiveBoosts(p)
  \/ \E p \in Procs : End(p)

SpecProtect == InitStreak /\ [][NextProtect]_vars

NextCheck ==
  \/ \E p \in Procs : CheckLoad(p) \/ CheckAward(p)
  \/ \E p \in Procs, g \in GameIds, x \in XpEarned, a \in GameActions :
       GameLoad(p, g, x, a)
  \/ \E p \in Procs : GameUpdate(p)
  \/ \E p \in Procs : End(p)

SpecCheck == Init /\ [][NextCheck]_vars

-----------------------------------------------------------------------------
(* Properties of the spin wheel *)

SpinPastCheck(p) == req[p].op = "spin" /\ req[p].pc # "check"
SpinCommitted(p) == req[p].op = "spin" /\ req[p].pc = "done" /\ req[p].out = "ok"

-----------------------------------------------------------------------------
(* Properties of the badge handlers *)

CheckDone(p) == req[p].op = "check" /\ req[p].pc = "done"

\* the badges a user qualifies for and does not hold, with their summed rewards
Due(u) == AwardLoop(u, 1, <<u.badges, 0, 0>>)

\* C1: when checkAndAwardBadges has run twice, concurrently, for a user who met
\* the criterion of a badge not yet held, each such badge is recorded exactly
\* once and its xpReward and coinReward are added exactly once to xp,
\* gameStats.totalXP and coins.
C1_AwardedOnce ==
  \A p, q \in Procs :
    (p # q /\ CheckDone(p) /\ CheckDone(q) /\ req[p].snap = req[q].snap
       /\ Len(Due(req[p].snap)[1]) > Len(req[p].snap.badges))
      => LET u == req[p].snap
             due == Due(u)
         IN /\ \A i \in 1..Len(due[1]) : Count(user.badges, due[1][i]) = 1
            /\ user.xp = u.xp + due[2]
            /\ user.totalXP = u.totalXP + due[2]
            /\ user.coins = u.coins + due[3]

\* C7: a badge identifier appears at most once in gameStats.badges.
C7_NoDuplicateBadge ==
  \A i, j \in 1..Len(user.badges) : user.badges[i] = user.badges[j] => i = j

\* the time window of the specification: now within [availableFrom, availableUntil]
InWindow(badge, t) ==
  /\ badge.availableFrom = 0 \/ t >= badge.availableFrom
  /\ badge.availableUntil = 0 \/ t <= badge.availableUntil

Purchasable(b, u, t) ==
  /\ b \in BadgeIds
  /\ Badges[FindBadge(b)].purchasable
  /\ Badges[FindBadge(b)].isActive /\ InWindow(Badges[FindBadge(b)], t)
  /\ ~Includes(u.badges, b)
  /\ u.coins >= Badges[FindBadge(b)].price

\* C10: purchaseBadge succeeds if and only if the badge exists, is purchasable
\* and available, is not held and coins >= price (a write conflict apart); the
\* commit takes exactly price from coins and appends the badge id in one step;
\* a rejected purchase changes neither coins nor the badge set.
C10_PurchaseBadge ==
  /\ [](\A p \in Procs :
          (req[p].op = "buyBadge" /\ req[p].pc = "done")
            => /\ req[p].out = "ok" => Purchasable(req[p].arg, req[p].snap, req[p].t)
               /\ Purchasable(req[p].arg, req[p].snap, req[p].t)
                    => req[p].out \in {"ok", "WriteConflict"})
  /\ [][\A p \in Procs :
          (req[p].op = "buyBadge" /\ req'[p].pc = "done" /\ req[p].pc # "done")
            => IF req'[p].out = "ok"
                 THEN /\ user'.coins = user.coins - Badges[FindBadge(req[p].arg)].price
                      /\ user'.badges = Append(user.badges, req[p].arg)
                 ELSE user'.coins = user.coins /\ user'.badges = user.badges]_vars

-----------------------------------------------------------------------------
(* Properties of the completions *)

\* the level curve of the specification: floor(sqrt(xp / 100)) + 1, at most 100
LevelForXP(xp) == Min(ISqrt(xp \div 100) + 1, 100)

\* C2: concurrent completions lose no update: the stored xp and gameStats.totalXP
\* are the base value plus the sum of the amounts awarded by the committed
\* completions, the completion counters count each of them, and the stored
\* level is the level of the stored xp.
C2_NoLostUpdate ==
  /\ user.xp = awarded.xp
  /\ user.totalXP = awarded.xp
  /\ user.completedHabits + user.completedTasks = awarded.n
  /\ user.level = LevelForXP(user.xp)

-----------------------------------------------------------------------------
(* All or nothing *)

Committing(p) ==
  req[p].pc = "commit" /\ req'[p].pc = "done" /\ req'[p].out = "ok"

\* the whole effect of the operation of p, as one step of the stored state
Whole(p) ==
  CASE req[p].op = "habit" ->
         /\ habit'.completions = habit.completions + 1
         /\ Day(req[p].t) \in habit'.history
         /\ user'.xp = user.xp + req[p].xpEarned
         /\ user'.totalXP = user.totalXP + req[p].xpEarned
         /\ user'.completedHabits = user.completedHabits + 1
    [] req[p].op = "task" ->
         /\ task'.completed
         /\ user'.xp = user.xp + req[p].xpEarned
         /\ user'.totalXP = user.totalXP + req[p].xpEarned
         /\ user'.completedTasks = user.completedTasks + 1
    [] req[p].op = "spin" ->
         /\ user'.lastSpin = req[p].t
         /\ user'.spinCount = user.spinCount + 1
         /\ user'.xp = user.xp + req[p].upd.xp
         /\ user'.totalXP = user.totalXP + req[p].upd.xp
         /\ user'.coins = user.coins + req[p].upd.coins
         /\ user'.items = user.items + (IF req[p].upd.item THEN 1 ELSE 0)
         /\ req[p].upd.badge # "" => Includes(user'.badges, req[p].upd.badge)
    [] req[p].op = "check" ->
         /\ user'.badges = Due(user)[1]
         /\ user'.xp = user.xp + Due(user)[2]
         /\ user'.coins = user.coins + Due(user)[3]
    [] req[p].op = "buyItem" ->
         /\ user'.coins = user.coins - req[p].upd.coins
         /\ user'.items = user.items + 1
    [] req[p].op = "buyBadge" ->
         /\ user'.coins = user.coins - Badges[FindBadge(req[p].arg)].price
         /\ user'.badges = Append(user.badges, req[p].arg)
    [] OTHER -> FALSE

-----------------------------------------------------------------------------
(* Properties of the purchases *)

\* C8: xp, coins and gems are never negative.
C8_NonNegative == user.xp >= 0 /\ user.coins >= 0 /\ user.gems >= 0

\* a finished purchaseItem, of the controller or of the User method, that met
\* neither a missing item nor a write conflict
ItemPurchaseDone(p) ==
  /\ req[p].op \in {"buyItem", "method"} /\ req[p].pc = "done"
  /\ req[p].out \notin {"NotFound", "WriteConflict"}

\* the step in which a purchaseItem takes effect or is turned down
ItemPurchaseEnds(p) ==
  /\ req'[p].op \in {"buyItem", "method"}
  /\ req'[p].pc = "done" /\ req[p].pc # "done"

\* what a purchaseItem does to the stored user: it takes the price on success
\* and leaves coins, gems and inventory alone otherwise
ItemPurchaseEffect ==
  \A p \in Procs :
    ItemPurchaseEnds(p)
      => IF req'[p].out = "ok"
           THEN /\ user'.coins = user.coins - req'[p].upd.coins
                /\ user'.gems = user.gems - req'[p].upd.xp
                /\ user'.items = user.items + 1
           ELSE /\ user'.coins = user.coins /\ user'.gems = user.gems
                /\ user'.items = user.items

-----------------------------------------------------------------------------
(* Properties of repeated purchases *)

\* the purchase of request p, now finished, was of something its snapshot of
\* the user already held: a badge of the badge set, or the store item bought
\* through the controller before (no purchase went through the User method)
OwnedBefore(p) ==
  \/ /\ req[p].op = "buyBadge" /\ req[p].out # "NotAvailable"
     /\ Includes(req[p].snap.badges, req[p].arg)
  \/ /\ req[p].op = "buyItem" /\ req[p].out # "NotFound"
     /\ req[p].snap.items >= 1 /\ req[p].snap.shopPurchases = 0

-----------------------------------------------------------------------------
(* Properties of the level *)

\* C12: after every ledger operation that changes xp the stored level is
\* min(floor(sqrt(xp / 100)) + 1, 100): the committed user document always
\* carries the level of its xp on the quadratic curve (xp 0 level 1, xp 100
\* level 2, xp 400 level 3), and never a level above 100.
C12_StoredLevel ==
  user.level = LevelForXP(user.xp) /\ user.level <= 100

\* the user's xp as a finished operation of request p left it
NewXP(p) ==
  IF req[p].op = "spin" THEN req[p].snap.xp + req[p].upd.xp ELSE req[p].wu.xp

\* what the response of request p surfaces as level-up: the level, 0 for null
\* or false; addXP answers with a boolean
Surfaced(p) ==
  IF req[p].op = "addXP"
    THEN (IF req[p].result.levelUp THEN LevelForXP(NewXP(p)) ELSE 0)
    ELSE req[p].levelUp

\* C13: completeHabit, completeTask, spin and addXP surface a level-up exactly
\* when the level for the new xp is greater than the level before the
\* operation: levelUp is the new level then, and null/false otherwise.
C13_LevelUpSurfaced ==
  \A p \in Procs :
    (/\ req[p].op \in {"habit", "task", "spin", "addXP"}
     /\ req[p].pc = "done" /\ req[p].out = "ok")
      => Surfaced(p) = IF LevelForXP(NewXP(p)) > req[p].snap.level
                         THEN LevelForXP(NewXP(p)) ELSE 0

-----------------------------------------------------------------------------
(* Properties of the streaks *)

\* the step in which the completion of request p is committed
CompletionCommits(p) ==
  /\ req[p].op = "habit" /\ req[p].pc = "commit"
  /\ req'[p].pc = "done" /\ req'[p].out = "ok"

\* the day of the completion that the step commits
CompletionDay == Day(habit'.lastCompleted)

\* C14: a completion applied on a calendar day on which the habit was already
\* completed leaves currentStreak unchanged, whatever the habit's earlier
\* state (also when it was completed on the day before).
C14_SameDayIdempotent ==
  [][\A p \in Procs :
       (CompletionCommits(p) /\ CompletionDay \in habit.history)
         => habit'.currentStreak = habit.currentStreak]_vars

\* the user holds a streak protection that has not expired at time t
Protected(u, t) == u.streakProtection > t

\* C15: without streak protection, a completion exactly one calendar day after
\* the day of the last completion adds 1 to currentStreak, a completion two or
\* more days after it sets currentStreak to 1, and the first completion ever
\* sets currentStreak to 1.
C15_StreakByGap ==
  [][\A p \in Procs :
       (CompletionCommits(p) /\ ~Protected(user, now))
         => LET gap == CompletionDay - LastDate(habit)
            IN /\ habit.history = {} => habit'.currentStreak = 1
               /\ (habit.history # {} /\ gap = 1)
                    => habit'.currentStreak = habit.currentStreak + 1
               /\ (habit.history # {} /\ gap >= 2) => habit'.currentStreak = 1]_vars

\* a committed completion that came two days after the one before and reset a
\* streak of two days or more
C15_Witness ==
  \E p \in Procs :
    /\ req[p].op = "habit" /\ req[p].pc = "done" /\ req[p].out = "ok"
    /\ habit = req[p].wh
    /\ habit.currentStreak = 1 /\ habit.longestStreak >= 2
    /\ Day(habit.lastCompleted) - 1 \notin habit.history
    /\ Day(habit.lastCompleted) - 2 \in habit.history

\* C16: in every reachable state longestStreak >= currentStreak, for the habit
\* and for the user's gameStats streak, after any sequence of completions,
\* calculateStreaks runs and streakUpdate actions of saveGameProgress.
C16_LongestAtLeastCurrent ==
  /\ habit.longestStreak >= habit.currentStreak
  /\ user.longestStreak >= user.currentStreak

\* C17: longestStreak never decreases: every step of a completion, of a streak
\* recalculation or of a streakUpdate action leaves longestStreak equal to
\* max(previous longestStreak, new currentStreak), for the habit and for the
\* user's gameStats streak.
C17_LongestIsMax ==
  [][/\ habit'.longestStreak = Max(habit.longestStreak, habit'.currentStreak)
     /\ user'.longestStreak = Max(user.longestStreak, user'.currentStreak)]_vars

\* C18: a completion that arrives more than one day after the last completion
\* while the user holds an unexpired streak protection does not reset the
\* streak (it continues unbroken) and consumes the protection; without
\* protection the same gap resets the streak to 1.
C18_ProtectedGap ==
  [][\A p \in Procs :
       (/\ CompletionCommits(p)
        /\ habit.history # {} /\ CompletionDay - LastDate(habit) >= 2)
         => IF Protected(user, habit'.lastCompleted)
              THEN /\ habit'.currentStreak = habit.currentStreak + 1
                   /\ user'.streakProtection = 0
              ELSE habit'.currentStreak = 1]_vars

\* the streaks at which the bonus function is compared with its definition
BonusStreaks == 0 .. 70

\* C19: for every streak >= 0 the streak bonus is min(floor(streak/3)*5, 100)
\* (streak 2 gives 0, 3 gives 5, 20 gives 30, 60 gives 100), and after every
\* habit save the stored streakBonus is that function of the stored
\* currentStreak.
C19_StreakBonus ==
  /\ \A streak \in BonusStreaks :
       calculateStreakBonus(streak) = Min((streak \div 3) * 5, 100)
  /\ calculateStreakBonus(2) = 0 /\ calculateStreakBonus(3) = 5
  /\ calculateStreakBonus(20) = 30 /\ calculateStreakBonus(60) = 100
  /\ habit.streakBonus = calculateStreakBonus(habit.currentStreak)

-----------------------------------------------------------------------------
(* Properties of the badge check *)

\* the badges that are active, not in the badge set of u, and whose metric
\* value in u reaches the threshold
Qualifying(u) ==
  {b \in BadgeIds :
     LET badge == Badges[FindBadge(b)]
     IN badge.isActive /\ ~Includes(u.badges, b)
          /\ Progress(u, badge) >= badge.threshold}

\* the set of the badges in a badge list
Held_Badges(bs) == {bs[i] : i \in 1..Len(bs)}

\* C20: checkAndAwardBadges awards exactly the badges that are active, not yet
\* in the user's badge set and whose metric value in the snapshot is >= the
\* threshold: it succeeds when there is such a badge, and its commit adds
\* those badges and no other to the user's badge set.
C20_AwardsExactly ==
  /\ [](\A p \in Procs :
          (CheckDone(p) /\ req[p].out # "WriteConflict")
            => (req[p].out = "ok" <=> Qualifying(req[p].snap) # {}))
  /\ [][\A p \in Procs :
          (req[p].op = "check" /\ req[p].pc = "commit" /\ req'[p].pc = "done")
            => Held_Badges(user'.badges)
                 = Held_Badges(user.badges) \cup Qualifying(req[p].snap)]_vars

\* the metrics that the switch of checkAndAwardBadges has a case for
RecognizedMetrics ==
  {"streak", "totalXP", "completedTasks", "completedHabits", "gamesPlayed",
   "daysActive"}

\* the badges whose metric the switch does not know
Unrecognized == {b \in BadgeIds : Badges[FindBadge(b)].metric \notin RecognizedMetrics}

\* request p is a checkAndAwardBadges call that has run its loop
CheckEvaluated(p) == req[p].op = "check" /\ req[p].pc \in {"commit", "catch", "done"}

\* C21: a badge whose metric is none of the recognized ones is never selected
\* by checkAndAwardBadges, whatever the user's stats, and evaluating it raises
\* no error: a call in which no badge of a recognized metric qualifies ends
\* with "no new badges".
C21_UnrecognizedNeverAwarded ==
  \A p \in Procs :
    CheckEvaluated(p)
      => /\ \A b \in Unrecognized :
              Includes(req[p].wu.badges, b) => Includes(req[p].snap.badges, b)
         /\ (Qualifying(req[p].snap) = {} /\ req[p].pc = "done")
              => req[p].out = "NoNewBadges"

\* a call that selected a badge for a user with stats and passed over the
\* active badge "gold", whose metric is shopPurchases and which the user lacks
C21_Witness ==
  \E p \in Procs :
    /\ CheckEvaluated(p)
    /\ "gold" \in Unrecognized /\ Badges[FindBadge("gold")].isActive
    /\ ~Includes(req[p].snap.badges, "gold")
    /\ req[p].snap.playCount >= 1
    /\ Len(req[p].wu.badges) > Len(req[p].snap.badges)

\* the sum of field f (xpReward or coinReward) over the badges of the set B
RECURSIVE SumOver(_, _)
SumOver(B, f) ==
  IF B = {} THEN 0
  ELSE LET b == CHOOSE x \in B : TRUE
       IN Badges[FindBadge(b)][f] + SumOver(B \ {b}, f)

\* C22: a checkAndAwardBadges call for which a non-empty set B of badges
\* qualifies commits, and its commit adds the sum of xpReward over B to xp and
\* to gameStats.totalXP, the sum of coinReward over B to coins, appends every
\* id of B to the badge set and leaves the level of the new xp.
C22_AwardCommits ==
  /\ [](\A p \in Procs :
          (CheckDone(p) /\ Qualifying(req[p].snap) # {})
            => req[p].out \in {"ok", "WriteConflict"})
  /\ [][\A p \in Procs :
          (req[p].op = "check" /\ req[p].pc = "commit" /\ req'[p].pc = "done")
            => LET B == Qualifying(req[p].snap)
               IN /\ user'.xp = user.xp + SumOver(B, "xpReward")
                  /\ user'.totalXP = user.totalXP + SumOver(B, "xpReward")
                  /\ user'.coins = user.coins + SumOver(B, "coinReward")
                  /\ Len(user'.badges) = Len(user.badges) + Cardinality(B)
                  /\ \A b \in B : Count(user'.badges, b) = 1
                  /\ user'.level = LevelForXP(user'.xp)]_vars

-----------------------------------------------------------------------------
(* Properties of the reward selection *)

\* the sum of the weights of the tiers before tier i
RECURSIVE WeightBefore(_)
WeightBefore(i) == IF i = 1 THEN 0 ELSE WeightBefore(i - 1) + REWARD_TIERS[i - 1].weight

\* the tier that the draw k (r = k/1000 * totalWeight) selected
Selected_Tier(k, name) ==
  \A i \in 1..Len(REWARD_TIERS) :
    (/\ WeightBefore(i) * 1000 <= k * SumWeights(1)
     /\ k * SumWeights(1) < (WeightBefore(i) + REWARD_TIERS[i].weight) * 1000)
      <=> name = REWARD_TIERS[i].name

\* C23: for every draw r in [0, totalWeight), selectRewardTier returns the one
\* tier whose cumulative-weight interval contains r; over the integer r in
\* [0, 100), with the weights 60, 25, 10, 4, 1, each tier is selected for
\* exactly weight-many values; the fallback return is never reached.
C23_TierByWeight ==
  /\ req[1].op = "tier"
       => /\ Selected_Tier(req[1].value, req[1].out)
          /\ WalkReturn(1, req[1].value * SumWeights(1)) # 0
  /\ [i \in 1..Len(REWARD_TIERS) |-> REWARD_TIERS[i].weight] = <<60, 25, 10, 4, 1>>
  /\ \A i \in 1..Len(REWARD_TIERS) :
       Cardinality({r \in 0..99 : selectRewardTier(r * 10) = REWARD_TIERS[i]})
         = REWARD_TIERS[i].weight

\* the draw on the boundary between the first two tiers selects the second
C23_Witness ==
  /\ req[1].op = "tier" /\ req[1].value = 600 /\ req[1].out = "Uncommon"

\* the tier of the configuration with the given name
TierNamed(name) == CHOOSE t \in {REWARD_TIERS[i] : i \in 1..Len(REWARD_TIERS)} : t.name = name

\* request p holds a materialized reward
Materialized(p) ==
  \/ req[p].op = "reward"
  \/ req[p].op = "spin" /\ req[p].tier # ""

\* C24: for every tier and every outcome of the draws, the materialized reward
\* holds exactly one primary component (xp or coins, not both) of that tier,
\* and of the tier's secondary components (item, badge) a subset, each at most
\* once; every xp or coin amount lies in the component's [min, max].
C24_RewardShape ==
  \A p \in Procs :
    Materialized(p)
      => LET tier == TierNamed(req[p].tier)
             rs == req[p].rewards
         IN /\ Cardinality({i \in 1..Len(rs) : rs[i].type \in {"xp", "coins"}}) = 1
            /\ \A i \in 1..Len(rs) :
                 \E j \in 1..Len(tier.rewards) :
                   LET c == tier.rewards[j]
                   IN /\ c.type = rs[i].type /\ c.id = rs[i].id
                      /\ IsPrimary(c) => c.min <= rs[i].amount /\ rs[i].amount <= c.max
            /\ \A i, j \in 1..Len(rs) : (i # j) => rs[i] # rs[j]

\* a Legendary reward with the largest xp amount, the item and the badge
C24_Witness ==
  /\ req[1].op = "reward" /\ req[1].tier = "Legendary"
  /\ Len(req[1].rewards) = 3
  /\ req[1].rewards[1].type = "xp" /\ req[1].rewards[1].amount = 500

\* the amount of the component of the given type in a materialized reward
RECURSIVE AmountOf(_, _)
AmountOf(rs, type) ==
  IF rs = <<>> THEN 0
  ELSE (IF Head(rs).type = type THEN Head(rs).amount ELSE 0) + AmountOf(Tail(rs), type)

\* the number of components of the given type in a materialized reward
NumberOf(rs, type) == Cardinality({i \in 1..Len(rs) : rs[i].type = type})

\* C25: the commit of a spin applies all its side effects in one step: xp,
\* gameStats.totalXP and coins grow by exactly the amounts reported in the
\* result, the awarded items join the inventory, a badge component is held
\* once afterwards and changes nothing when it was held before, lastSpin is
\* the spin time, the spin counter grows by exactly 1, and the level is that
\* of the new xp, with a level-up flagged exactly when it is above the level
\* before.
C25_SpinEffects ==
  [][\A p \in Procs :
       (Committing(p) /\ req[p].op = "spin")
         => LET rs == req[p].rewards
            IN /\ user'.xp = user.xp + AmountOf(rs, "xp")
               /\ user'.totalXP = user.totalXP + AmountOf(rs, "xp")
               /\ user'.coins = user.coins + AmountOf(rs, "coins")
               /\ user'.items = user.items + NumberOf(rs, "item")
               /\ \A i \in 1..Len(rs) :
                    rs[i].type = "badge"
                      => /\ Count(user'.badges, rs[i].id) = 1
                         /\ Includes(user.badges, rs[i].id)
                              => user'.badges = user.badges
               /\ NumberOf(rs, "badge") = 0 => user'.badges = user.badges
               /\ user'.lastSpin = req[p].t
               /\ user'.spinCount = user.spinCount + 1
               /\ user'.level = LevelForXP(user'.xp)
               /\ (req[p].levelUp # 0) <=> (LevelForXP(user'.xp) > user.level)]_vars

-----------------------------------------------------------------------------
(* Leaderboards *)

\* the finished requests for a leaderboard of a known type
Ranked(p) ==
  /\ req[p].op = "leaderboard" /\ req[p].pc = "done"
  /\ req[p].arg.type \in LeaderTypes

\* C26: for every leaderboard dimension the request answers with a list that
\* is sorted descending by the score, holds at most limit entries, and gives
\* the k-th entry the rank k.
C26_RankedList ==
  \A p \in Procs :
    Ranked(p)
      => LET b == req[p].board
         IN /\ req[p].out = "ok"
            /\ Len(b) <= req[p].arg.limit
            /\ \A k \in 1..Len(b) : b[k].rank = <<k>>
            /\ \A k \in 1..(Len(b) - 1) : b[k].score[1] >= b[k + 1].score[1]

\* the documents that compete in the dimension of a position request, and
\* those of them that belong to the asking user
Entrants(r) ==
  IF LEADERBOARD_TYPES[r.arg.type].collection = "users" THEN r.coll
  ELSE SelectSeq(r.coll, LAMBDA d : d.gameId = r.arg.gameId)

Own(r) ==
  IF LEADERBOARD_TYPES[r.arg.type].collection = "users"
    THEN SelectSeq(r.coll, LAMBDA d : d._id = r.arg.userId)
    ELSE SelectSeq(Entrants(r), LAMBDA d : d.userId = r.arg.userId)

\* C27: for every existing user and dimension the position request answers
\* with 1 + the number of entrants whose score in the dimension is strictly
\* greater than the user's.
C27_PositionByGreater ==
  \A p \in Procs :
    (req[p].op \in {"position", "leaderboardPosition"} /\ req[p].pc = "done"
       /\ Own(req[p]) # <<>>)
      => LET r == req[p]
             path == LEADERBOARD_TYPES[r.arg.type].sortField
             mine == Path(Own(r)[1], path)[1]
         IN /\ r.out = "ok"
            /\ r.value = 1 + Cardinality({j \in 1..Len(Entrants(r)) :
                                            Path(Entrants(r)[j], path)[1] > mine})

\* the users whose recency (the user's gameStats.lastActive, the progress's
\* lastPlayed) lies within the window of the request, among those of the
\* requested game
WithinWindow(r) ==
  LET from == getDateFilter(r.arg.timeframe, r.t)[1]
  IN IF LEADERBOARD_TYPES[r.arg.type].collection = "users"
       THEN {r.coll[i]._id : i \in {j \in 1..Len(r.coll) :
                                      r.coll[j].gameStats.lastActive >= from}}
       ELSE {r.coll[i].userId : i \in {j \in 1..Len(r.coll) :
               /\ r.coll[j].lastPlayed >= from
               /\ r.arg.gameId # "" => r.coll[j].gameId = r.arg.gameId}}

\* C28: a leaderboard with a timeframe that is answered, with room for every
\* user, lists exactly the users whose recency lies within the window.
C28_TimeframeCandidates ==
  \A p \in Procs :
    (Ranked(p) /\ req[p].out = "ok" /\ req[p].arg.timeframe # ""
       /\ req[p].arg.limit >= MaxUsers)
      => {req[p].board[k].id : k \in 1..Len(req[p].board)} = WithinWindow(req[p])

\* C29: every badge of the catalogue is decided on the snapshot loaded at the
\* start of the call: it is held after the call exactly when it was held
\* before or it is active and the snapshot's metric reaches its threshold,
\* whatever xp and coins the other badges awarded in the call bring.
C29_SnapshotEvaluation ==
  \A p \in Procs :
    (req[p].op = "evaluate" /\ req[p].pc = "done")
      => LET u == req[p].snap
             c == req[p].coll
         IN /\ \A i \in 1..Len(c) :
                 Includes(req[p].wu.badges, c[i].id)
                   <=> \/ Includes(u.badges, c[i].id)
                       \/ c[i].isActive /\ Progress(u, c[i]) >= c[i].threshold
            /\ req[p].wu.totalXP = u.totalXP + req[p].xpEarned

\* a call that awards a badge worth 50 xp to a user at total xp 0, and leaves
\* the badge for 40 total xp, evaluated after it, unawarded
C29_Witness ==
  /\ req[1].op = "evaluate" /\ req[1].pc = "done"
  /\ req[1].snap.totalXP = 0 /\ req[1].xpEarned = 50
  /\ Len(req[1].coll) >= 2 /\ req[1].coll[1].id = "streaker"
  /\ req[1].coll[2].id = "scholar"
  /\ req[1].wu.badges = <<"streaker">>

\* C30: once deleteBadge and every request that was in flight with it have
\* finished, no deleted badge is in the user's gameStats.badges.
C30_NoDanglingBadge ==
  (\A p \in Procs : ~Active(p))
    => \A b \in deleted : ~Includes(user.badges, b)

\* C31: isAvailable is false for an inactive badge, for a time after a set
\* availableUntil, and for a time before a set availableFrom.
C31_AvailableInWindow ==
  (req[1].op = "isAvailable" /\ req[1].pc = "done")
    => LET badge == req[1].coll[1]
           t == req[1].t
       IN (\/ ~badge.isActive
           \/ badge.availableUntil # 0 /\ t > badge.availableUntil
           \/ badge.availableFrom # 0 /\ t < badge.availableFrom)
            => req[1].out = "false"

\* C32: in every reachable state the progress of the user toward the next
\* level is (xp - xpForLevel(level)) / (xpForLevel(level + 1) -
\* xpForLevel(level)), with xpForLevel(L) = 100 (L - 1)^2, clamped to the
\* range from 0% to 100%: it is never negative.
C32_ProgressClamped ==
  LET from == (user.level - 1) * (user.level - 1) * 100
      to == user.level * user.level * 100
      p == xpProgress(user)
  IN /\ p.den = to - from
     /\ p.num = Max(0, Min((user.xp - from) * 100, 100 * (to - from)))

\* C33: the commit of a completeTask adds the task's totalXP alone when the
\* task was completed after its due date, and totalXP plus 20% when it was
\* completed on or before the due date or has none.
C33_OnTimeBonus ==
  [][\A p \in Procs :
       (Committing(p) /\ req[p].op = "task")
         => LET t == req[p].wt
                base == TaskTotalXP(t)
                late == t.dueDate # 0 /\ req[p].t > t.dueDate
            IN user'.xp = user.xp + (IF late THEN base ELSE base + base \div 5)]_vars

\* C34: when checkAndAwardBadges has run twice in sequence with no other
\* change to the user in between, the second call reports 0 badges earned and
\* the user's xp, gameStats.totalXP, coins and badges are as the first call
\* left them.
C34_SecondAwardsNothing ==
  (/\ req[1].op = "check" /\ req[1].pc = "done"
   /\ req[2].op = "check" /\ req[2].pc = "done")
    => /\ req[2].out = "NoNewBadges"
       /\ user.xp = req[2].snap.xp /\ user.totalXP = req[2].snap.totalXP
       /\ user.coins = req[2].snap.coins /\ user.badges = req[2].snap.badges

\* C35: after any number of completeTask requests on the task, the user's
\* xp, gameStats.totalXP and gameStats.completedTasks have grown as for a
\* single completion (with or without the on-time bonus) or not at all.
C35_CompleteOnce ==
  LET base == TaskTotalXP(task)
  IN \/ user.completedTasks = 0 /\ user.xp = 0 /\ user.totalXP = 0
     \/ /\ user.completedTasks = 1
        /\ user.xp \in {base, base + base \div 5}
        /\ user.totalXP = user.xp

\* the operations that award XP, taken together
NextXP ==
  \/ \E p \in Procs : Habit(p)
  \/ \E p \in Procs : Task(p)
  \/ \E p \in Procs : Spin(p)
  \/ \E p \in Procs : CheckLoad(p) \/ CheckAward(p)
  \/ \E p \in Procs : GameLoad(p, "spin-wheel", 30, [type |-> "", value |-> 0])
  \/ \E p \in Procs : GameUpdate(p)
  \/ \E p \in Procs : addXP(p, 100)
  \/ \E p \in Procs : End(p)

SpecXP == Init /\ [][NextXP]_vars

\* C36: no step of completeHabit, completeTask, spin, checkAndAwardBadges,
\* saveGameProgress or addXP changes the difference gameStats.totalXP - xp of
\* the stored user, and a step that changes xp changes gameStats.totalXP by
\* the same amount.
C36_SameAmount ==
  [][user'.totalXP - user'.xp = user.totalXP - user.xp]_vars

\* a commit has added XP to both fields of a user who had earned XP before
C36_Witness ==
  /\ user.xp > 100 /\ user.totalXP = user.xp
  /\ \E p \in Procs : req[p].op \in {"game", "spin", "habit", "task", "addXP"}
                      /\ req[p].pc = "done" /\ req[p].out = "ok"

\* the ledger operations that write the level, with the badge purchase
NextRise ==
  \/ \E p \in Procs : Habit(p)
  \/ \E p \in Procs : Task(p)
  \/ \E p \in Procs : Spin(p)
  \/ \E p \in Procs : CheckLoad(p) \/ CheckAward(p)
  \/ \E p \in Procs : PurchaseBadge(p, "gold")
  \/ \E p \in Procs : PurchaseBadgeSave(p)
  \/ \E p \in Procs : GameLoad(p, "spin-wheel", -5, [type |-> "", value |-> 0])
  \/ \E p \in Procs : GameUpdate(p)
  \/ \E p \in Procs : End(p)

SpecRise == Init /\ [][NextRise]_vars

\* C37: no step of completeHabit, completeTask, spin, checkAndAwardBadges,
\* purchaseBadge or saveGameProgress, run alone or concurrently, lowers the
\* stored level of the user, and a commit that changes the level stores a
\* level above the one the request read.
C37_LevelNeverDecreases ==
  [][/\ user'.level >= user.level
     /\ \A p \in Procs :
          Committing(p) /\ user'.level # user.level
            => user'.level > req[p].snap.level]_vars

\* a request has committed and left the level above the one its formula
\* gives for the stored xp: the level was kept where xp went down
C37_Witness ==
  /\ user.level > (user.xp \div 100) + 1
  /\ \E p \in Procs : req[p].op = "game" /\ req[p].pc = "done" /\ req[p].out = "ok"

\* C38: a request that ran in a transaction and has left its try and catch
\* blocks has made exactly one call that ends the transaction, a commit or an
\* abort, and has handed exactly one response or error to its caller; the
\* finally block, which ends the session, runs on such a request only.
C38_EndedOnce ==
  /\ [](\A p \in Procs :
          (req[p].op \in {"habit", "task", "spin", "check", "buyItem", "buyBadge"}
             /\ req[p].pc = "done")
            => (Len(req[p].called) = 1 /\ req[p].resp = 1))
  /\ [][\A p \in Procs :
          (req[p].op # "idle" /\ req'[p].op = "idle") => req[p].pc = "done"]_vars

====
